---- MODULE Spec2Model ----
(***************************************************************************)
(* A model of the Knowledge Gap Finder analysis engine (cpirich/kg):       *)
(* the bounded-concurrency extraction orchestrator of                      *)
(* hooks/use-ingestion-pipeline.ts, the claim extractor of                 *)
(* lib/ai/claim-extractor.ts, the label normalizer of lib/utils/text.ts    *)
(* and document deletion of hooks/use-documents.ts, over the Dexie store   *)
(* of lib/db/schema.ts.                                                    *)
(*                                                                         *)
(* JavaScript runs one continuation at a time: every action below is the   *)
(* code that runs between two awaits of one async function, taken at the   *)
(* moment the awaited store request or oracle call completes.              *)
(***************************************************************************)
EXTENDS Integers, Sequences, FiniteSets, TLC

\* ------------------------------------------------------------------ bounds

\* Files ever handed to ingest in one behaviour (createId is called once per file).
MaxFiles == 2

\* Chunks the documents of one behaviour are cut into, all together.
MaxChunks == 3

\* deleteDocument calls of one behaviour.
MaxDeletes == 1

\* runContradictionDetection calls, and runGapAnalysis calls, of a behaviour.
MaxRuns == 2

\* Contradictions a detection run keeps at most.
MaxDetected == 1

\* Gaps analyzeGaps returns at most.
MaxGaps == 1

\* Questions generateQuestions returns for a gap at most.
MaxQuestions == 1

\* The longest text given to chunkText.
MaxText == 4

\* The largest chunkSize given to chunkText.
MaxChunkSize == 3

\* The largest chunkOverlap given to chunkText.
MaxOverlap == 3

\* The most claims given to generateContradictionCandidates.
MaxClaims == 3

\* The most topics given to findStructuralGaps.
MaxTopics == 5

\* The longest response text given to parseJsonResponse, before padding.
MaxJson == 7

\* The number of characters a padded response text is made longer by.
Padding == 300

\* The most items of the claims array given to validateClaims.
MaxItems == 2

\* The most characters of a label given to normalizeLabel.
MaxLabel == 5

\* The most structural and density gaps of a gap analysis run that is
\* followed through its oracle failures.
MaxLocalGaps == 3

\* ------------------------------------------------------- program constants

\* createSemaphore(2)
SemaphoreLimit == 2

\* documentId: null of a progress entry no ingestSingleFile call has touched yet.
NoDoc == 0

\* CONCURRENCY_LIMIT of runGapAnalysis
CONCURRENCY_LIMIT == 3

\* findBreakPoint looks back this many characters from the target.
SearchWindow == 200

\* findStructuralGaps returns this many gaps at most.
TopGaps == 20

\* The error of parseJsonResponse quotes this many characters of the text.
Quoted == 200

\* ------------------------------------------------------- label normalizer

UpperChars == <<"A","B","C","D","E","F","G","H","I","J","K","L","M",
                "N","O","P","Q","R","S","T","U","V","W","X","Y","Z">>

LowerChars == <<"a","b","c","d","e","f","g","h","i","j","k","l","m",
                "n","o","p","q","r","s","t","u","v","w","x","y","z">>

\* The characters /\s/ and String.prototype.trim treat as white space.
Whitespace == {" ", "\t", "\n"}

toLowerCaseChar(c) ==
  IF \E i \in DOMAIN UpperChars : UpperChars[i] = c
  THEN LowerChars[CHOOSE i \in DOMAIN UpperChars : UpperChars[i] = c]
  ELSE c

toLowerCase(s) == [i \in 1..Len(s) |-> toLowerCaseChar(s[i])]

RECURSIVE trimStart(_)
trimStart(s) ==
  IF s # <<>> /\ Head(s) \in Whitespace THEN trimStart(Tail(s)) ELSE s

RECURSIVE trimEnd(_)
trimEnd(s) ==
  IF s # <<>> /\ s[Len(s)] \in Whitespace
  THEN trimEnd(SubSeq(s, 1, Len(s) - 1))
  ELSE s

trim(s) == trimEnd(trimStart(s))

\* replace(/\s+/g, " ")
RECURSIVE collapseWhitespace(_)
collapseWhitespace(s) ==
  IF s = <<>> THEN <<>>
  ELSE IF Head(s) \in Whitespace
       THEN <<" ">> \o collapseWhitespace(trimStart(s))
       ELSE <<Head(s)>> \o collapseWhitespace(Tail(s))

endsWith(s, suffix) ==
  /\ Len(s) >= Len(suffix)
  /\ SubSeq(s, Len(s) - Len(suffix) + 1, Len(s)) = suffix

SINGULARIZATION_EXCEPTIONS ==
  { <<"l","e","s","s">>, <<"c","l","a","s","s">>,
    <<"p","r","o","c","e","s","s">>, <<"b","i","a","s">>,
    <<"l","o","s","s">>, <<"a","x","i","s">>,
    <<"a","n","a","l","y","s","i","s">>, <<"b","a","s","i","s">>,
    <<"c","r","i","s","i","s">>, <<"d","i","a","g","n","o","s","i","s">>,
    <<"h","y","p","o","t","h","e","s","i","s">>, <<"t","h","e","s","i","s">>,
    <<"s","y","n","t","h","e","s","i","s">>,
    <<"c","o","n","s","e","n","s","u","s">>, <<"f","o","c","u","s">>,
    <<"s","t","a","t","u","s">>, <<"v","i","r","u","s">>,
    <<"p","l","u","s">>, <<"g","a","s">>, <<"b","u","s">>,
    <<"s","t","r","e","s","s">>, <<"s","u","c","c","e","s","s">>,
    <<"a","c","c","e","s","s">>, <<"p","r","o","g","r","e","s","s">>,
    <<"a","d","d","r","e","s","s">>, <<"e","x","p","r","e","s","s">>,
    <<"c","o","n","g","r","e","s","s">>, <<"m","a","s","s">>,
    <<"g","l","a","s","s">>, <<"g","r","a","s","s">>,
    <<"c","r","o","s","s">>, <<"b","o","s","s">>, <<"m","o","s","s">> }

isSingularizationException(word) ==
  \/ word \in SINGULARIZATION_EXCEPTIONS
  \/ endsWith(word, <<"s","s">>)
  \/ endsWith(word, <<"u","s">>)
  \/ endsWith(word, <<"i","s">>)
  \/ endsWith(word, <<"s","i","s">>)
  \/ endsWith(word, <<"o","u","s">>)

normalizeLabel(label) ==
  LET normalized == collapseWhitespace(trim(toLowerCase(label)))
  IN  IF /\ Len(normalized) > 3
         /\ endsWith(normalized, <<"s">>)
         /\ ~isSingularizationException(normalized)
      THEN SubSeq(normalized, 1, Len(normalized) - 1)
      ELSE normalized

\* ------------------------------------------------------------------ inputs

\* Raw topic labels the oracle may return.
LabelCells == <<"C","e","l","l","s">>

LabelCell == <<" ","c","e","l","l">>

LabelBias == <<"b","i","a","s">>

\* Items of a reply's claims array. wellTyped: text and type are strings,
\* confidence is a number and topics is an array (what validateClaims filters on).
ItemCellsBias == [wellTyped |-> TRUE, topics |-> <<LabelCells, LabelBias>>]

ItemCellsCell == [wellTyped |-> TRUE, topics |-> <<LabelCells, LabelCell>>]

ItemMalformed == [wellTyped |-> FALSE, topics |-> <<>>]

\* What one messages.create call can do: reject (transport failure), or return
\* a text that parseJsonResponse rejects ("unparseable"), a JSON value without
\* a claims array ("nolist"), or a JSON object with a claims array ("list").
RejectedCall == [kind |-> "reject", claims |-> <<>>]

UnparseableReply == [kind |-> "unparseable", claims |-> <<>>]

NoListReply == [kind |-> "nolist", claims |-> <<>>]

\* These replies lead to no claim ...
ClaimlessReplies ==
  { RejectedCall, UnparseableReply, NoListReply,
    [kind |-> "list",        claims |-> <<>>],
    [kind |-> "list",        claims |-> <<ItemMalformed>>] }

\* ... and these carry claims.
ClaimReplies ==
  { [kind |-> "list",        claims |-> <<ItemCellsBias>>],
    [kind |-> "list",        claims |-> <<ItemCellsCell>>],
    [kind |-> "list",        claims |-> <<ItemMalformed, ItemCellsBias>>] }

OracleReplies == ClaimlessReplies \cup ClaimReplies

\* hashContent: SHA-256 of the content, taken as collision free. A content is
\* named by a number: that of the first file that brought it.
hashContent(text) == <<"sha256", text>>

DocIds == 1..MaxFiles

ChunkIdx == 0..(MaxChunks - 1)

\* The mounted instances of the contradictions page, and of the gaps page: two
\* tabs of one origin, which share the database. Each has its own hook state.
Pages == {"tab1", "tab2"}

\* --------------------------------------------------------------- variables

VARIABLES
  apiKey,              \* appSettings "settings".apiKey is set
  processingRef,       \* processingRef.current
  isProcessing,        \* the isProcessing React state
  progress,            \* the published IngestionProgress[]
  lastIngest,          \* outcome of the latest ingest call: "none", "accepted", "rejected"
  files,               \* files.length of the ingest call in flight
  fileIdx,             \* the loop variable i of ingest (1-based here)
  pc,                  \* where the ingest / ingestSingleFile call in flight stands
  documentId,          \* documentId of the ingestSingleFile call in flight
  content,             \* fileContent of the ingestSingleFile call in flight
  thrown,              \* the message of the error on its way to the catch block
  pairWeights,         \* pairWeights of the createTopicRelationships call in flight
  documents,           \* db.documents:  id -> Document
  textChunks,          \* db.textChunks: set of [documentId, chunkIndex]
  claims,              \* db.claims:     set of Claim
  topics,              \* db.topics:     id -> Topic
  topicRelationships,  \* db.topicRelationships: id -> TopicRelationship
  runs,                \* per ingestSingleFile call: semaphore, seenDocIds, counters
  tasks,               \* the chunk tasks (chunkPromises): <<documentId, chunkIndex>> -> state
  chunksCut,           \* chunks cut so far, against MaxChunks
  deletions,           \* deleteDocument calls so far, against MaxDeletes
  nextDocId,           \* createId("doc") calls so far
  nextTopicId,         \* createId("topic") calls so far
  nextRelId,           \* createId("rel") calls so far
  contradictions,      \* db.contradictions:     set of Contradiction ids
  knowledgeGaps,       \* db.knowledgeGaps:      set of KnowledgeGap ids
  researchQuestions,   \* db.researchQuestions:  set of ResearchQuestion ids
  detection,           \* per contradictions page: isDetecting, error, the run in flight
  analysis,            \* per gaps page: isAnalyzing, error, the run in flight
  detectionRuns,       \* runContradictionDetection calls so far, against MaxRuns
  analysisRuns,        \* runGapAnalysis calls so far, against MaxRuns
  pending,             \* per analysis table: the requests not yet answered, oldest first
  chunker,             \* the chunkText call at hand: its arguments, locals and result
  generator,           \* the generateContradictionCandidates call at hand
  finder,              \* the findStructuralGaps call at hand
  call                 \* the call of another library function at hand

\* The calls of library functions that touch no store.
libraryVars == <<chunker, generator, finder, call>>

vars == <<apiKey, libraryVars, processingRef, isProcessing, progress, lastIngest, files, fileIdx,
          pc, documentId, content, thrown, pairWeights, documents, textChunks, claims, topics,
          topicRelationships, runs, tasks, chunksCut, deletions, nextDocId, nextTopicId,
          nextRelId, contradictions, knowledgeGaps, researchQuestions, detection, analysis,
          detectionRuns, analysisRuns, pending>>

storeVars == <<documents, textChunks, claims, topics, topicRelationships>>

idVars == <<chunksCut, deletions, nextDocId, nextTopicId, nextRelId>>

contradictionVars == <<contradictions, detection, detectionRuns>>

gapVars == <<knowledgeGaps, researchQuestions, analysis, analysisRuns>>

analysisVars == <<contradictionVars, gapVars, pending>>

ingestVars == <<processingRef, isProcessing, progress, lastIngest, files, fileIdx, pc,
                documentId, content, thrown, pairWeights, runs, tasks>>

\* ------------------------------------------------------------------- Init

\* No chunkText call is at hand.
IdleChunker ==
  [pc |-> "idle", text |-> <<>>, chunkSize |-> 0, chunkOverlap |-> 0, startOffset |-> 0,
   chunkIndex |-> 0, chunks |-> <<>>]

\* No call of another library function is at hand.
NoCall == [fn |-> "none", pc |-> "idle"]

\* No findStructuralGaps call is at hand.
IdleFinder == [pc |-> "idle", topics |-> <<>>, relationships |-> <<>>, gaps |-> <<>>,
               returned |-> <<>>]

\* No generateContradictionCandidates call is at hand.
IdleGenerator == [pc |-> "idle", claims |-> <<>>, candidates |-> <<>>]

\* No request waits at db.contradictions, db.knowledgeGaps, db.researchQuestions.
NonePending == [contradictions |-> <<>>, knowledgeGaps |-> <<>>, researchQuestions |-> <<>>]

\* useContradictions as mounted: isDetecting false, error null, no run in flight.
IdleDetection ==
  [isDetecting |-> FALSE, error |-> "", pc |-> "idle", run |-> 0, candidates |-> {},
   detected |-> {}]

\* useGaps as mounted: isAnalyzing false, error null, no run in flight.
IdleAnalysis ==
  [isAnalyzing |-> FALSE, error |-> "", pc |-> "idle", run |-> 0, detectedGaps |-> 0,
   gapIndex |-> 0, workers |-> <<>>, questions |-> {}, gapsCleared |-> 0,
   questionsCleared |-> 0, localGaps |-> 0, aiFailed |-> FALSE, failedGaps |-> {}]

Init ==
  /\ apiKey \in BOOLEAN
  /\ processingRef = FALSE
  /\ isProcessing = FALSE
  /\ progress = <<>>
  /\ lastIngest = "none"
  /\ files = 0
  /\ fileIdx = 0
  /\ pc = "idle"
  /\ documentId = NoDoc
  /\ content = NoDoc
  /\ thrown = ""
  /\ pairWeights = <<>>
  /\ documents = <<>>
  /\ textChunks = {}
  /\ claims = {}
  /\ topics = <<>>
  /\ topicRelationships = <<>>
  /\ runs = <<>>
  /\ tasks = <<>>
  /\ chunksCut = 0
  /\ deletions = 0
  /\ nextDocId = 0
  /\ nextTopicId = 0
  /\ nextRelId = 0
  /\ contradictions = {}
  /\ knowledgeGaps = {}
  /\ researchQuestions = {}
  /\ detection = [p \in Pages |-> IdleDetection]
  /\ analysis = [p \in Pages |-> IdleAnalysis]
  /\ detectionRuns = 0
  /\ analysisRuns = 0
  /\ pending = NonePending
  /\ chunker = IdleChunker
  /\ generator = IdleGenerator
  /\ finder = IdleFinder
  /\ call = NoCall

\* ------------------------------------------------------------ Dexie tables

\* Table.put
Put(table, key, value) ==
  [k \in DOMAIN table \cup {key} |-> IF k = key THEN value ELSE table[k]]

Merge(old, changes) ==
  [f \in DOMAIN old |-> IF f \in DOMAIN changes THEN changes[f] ELSE old[f]]

\* Table.update: changes the record under key, and does nothing when there is none.
Update(table, key, changes) ==
  IF key \in DOMAIN table
  THEN [table EXCEPT ![key] = Merge(@, changes)]
  ELSE table

\* Table.clear in the place of Table.bulkDelete: asked to delete some keys, it
\* deletes every record.
BulkDeleteClearing(table, keys) == IF keys = {} THEN table ELSE <<>>

\* Table.bulkDelete
BulkDelete(table, keys) == [k \in DOMAIN table \ keys |-> table[k]]

setDocumentStatus(id, status, prog, error) ==
  Update(documents, id, [status |-> status, progress |-> prog, error |-> error])

\* ------------------------------------------------------- published progress

\* An array slot nothing was ever assigned to.
Hole == [documentId |-> NoDoc, status |-> "", progress |-> -1, error |-> ""]

\* setProgress(prev => { next = [...prev]; next[index] = {...next[index], ...update} })
\* with 1-based index; assigning past the end of a JavaScript array extends it.
updateProgress(prev, index, update) ==
  LET padded == [i \in 1..(IF index > Len(prev) THEN index ELSE Len(prev)) |->
                   IF i <= Len(prev) THEN prev[i] ELSE Hole]
  IN  [padded EXCEPT ![index] = Merge(@, update)]

initialProgress(n) ==
  [i \in 1..n |->
     [documentId |-> NoDoc, status |-> "uploading", progress |-> 0, error |-> ""]]

\* ---------------------------------------------------------- chunk task state

\* A chunk task that waits in the semaphore queue ("queued"), or has just been
\* given a slot, or is settled.
NewTask(taskPc) ==
  [pc |-> taskPc, calls |-> 0, result |-> <<>>, ci |-> 1, ti |-> 1,
   topicIds |-> <<>>, existing |-> <<>>, isNewDoc |-> FALSE, chunkProgress |-> 0]

\* A settled chunk promise is fulfilled ("done") or rejected ("failed").
Settled(t) == t.pc \in {"done", "failed"}

TasksOf(ts, d) == {k \in DOMAIN ts : k[1] = d}

\* The closures of an ingestSingleFile call that has returned and whose chunk
\* promises are all settled can no longer run: they are dropped.
Collect(rs, ts, active) ==
  LET dead == {d \in DOMAIN rs : d # active /\ \A k \in TasksOf(ts, d) : Settled(ts[k])}
  IN  [runs  |-> [d \in DOMAIN rs \ dead |-> rs[d]],
       tasks |-> [k \in {x \in DOMAIN ts : x[1] \notin dead} |-> ts[k]]]

\* ------------------------------------------------------------------ ingest

\* The first lines of ingestSingleFile(files[i], i), up to await file.text().
startFile(prog, i) ==
  /\ fileIdx' = i
  /\ documentId' = nextDocId + 1
  /\ nextDocId' = nextDocId + 1
  /\ progress' = updateProgress(prog, i,
                   [documentId |-> nextDocId + 1, status |-> "uploading", progress |-> 0])
  /\ pc' = "hash"

\* ingestSingleFile has returned: the for loop of ingest goes on with the next
\* file, or ingest ends and gives the flag back. prog is the published progress
\* as the returning call leaves it.
loopNext(prog) ==
  /\ thrown' = ""
  /\ content' = NoDoc
  /\ pairWeights' = <<>>
  /\ LET c == Collect(runs, tasks, NoDoc)
     IN  runs' = c.runs /\ tasks' = c.tasks
  /\ IF fileIdx < files
     THEN /\ files' = files
          /\ startFile(prog, fileIdx + 1)
          /\ UNCHANGED <<processingRef, isProcessing>>
     ELSE /\ progress' = prog
          /\ isProcessing' = FALSE
          /\ processingRef' = FALSE
          /\ pc' = "idle"
          /\ files' = 0
          /\ fileIdx' = 0
          /\ documentId' = NoDoc
          /\ UNCHANGED nextDocId

\* An ingest without the processingRef guard.
ingestUnguarded(n) ==
  /\ n <= MaxFiles - nextDocId
  /\ lastIngest' = "accepted"
  /\ processingRef' = TRUE
  /\ isProcessing' = TRUE
  /\ files' = n
  /\ startFile(initialProgress(n), 1)
  /\ UNCHANGED <<analysisVars, apiKey, libraryVars, content, thrown, pairWeights, storeVars, runs, tasks,
                 chunksCut, deletions, nextTopicId, nextRelId>>

\* ingest(files), files.length being n. The batch is bounded by the files the
\* behaviour may still use.
ingest(n) ==
  IF processingRef
  THEN /\ lastIngest' = "rejected"
       /\ UNCHANGED <<analysisVars, apiKey, libraryVars, processingRef, isProcessing, progress, files, fileIdx, pc,
                      documentId, content, thrown, pairWeights, storeVars, runs, tasks,
                      idVars>>
  ELSE /\ n <= MaxFiles - nextDocId
       /\ lastIngest' = "accepted"
       /\ processingRef' = TRUE
       /\ isProcessing' = TRUE
       /\ files' = n
       /\ startFile(initialProgress(n), 1)
       /\ UNCHANGED <<analysisVars, apiKey, libraryVars, content, thrown, pairWeights, storeVars, runs, tasks,
                      chunksCut, deletions, nextTopicId, nextRelId>>

\* Step 1 without the duplicate check: every file goes on to step 2.
HashCheckedWithoutLookup(fileContent) ==
  /\ pc = "hash"
  /\ \/ fileContent = documentId
     \/ \E d \in DOMAIN documents : documents[d].hash = hashContent(fileContent)
  /\ pc' = "putDocument"
  /\ content' = fileContent
  /\ UNCHANGED <<analysisVars, apiKey, libraryVars, processingRef, isProcessing, progress, lastIngest,
                 files, fileIdx, documentId, thrown, pairWeights,
                 storeVars, runs, tasks, idVars>>

\* Step 1: the file is read and the hash lookup has answered. The content is
\* that of a stored Document, or one no stored Document has.
HashChecked(fileContent) ==
  /\ pc = "hash"
  /\ \/ fileContent = documentId
     \/ \E d \in DOMAIN documents : documents[d].hash = hashContent(fileContent)
  /\ LET hash == hashContent(fileContent)
         existingDoc == {d \in DOMAIN documents : documents[d].hash = hash}
     IN  IF existingDoc # {}
         THEN /\ loopNext(updateProgress(progress, fileIdx,
                    [status |-> "error", progress |-> 0, error |-> "Duplicate"]))
              /\ UNCHANGED <<analysisVars, apiKey, libraryVars, lastIngest, storeVars, chunksCut, deletions,
                             nextTopicId, nextRelId>>
         ELSE /\ pc' = "putDocument"
              /\ content' = fileContent
              /\ UNCHANGED <<analysisVars, apiKey, libraryVars, processingRef, isProcessing, progress, lastIngest,
                             files, fileIdx, documentId, thrown, pairWeights,
                             storeVars, runs, tasks, idVars>>

\* Step 2: db.documents.put(doc) is done.
DocumentPut ==
  /\ pc = "putDocument"
  /\ documents' = Put(documents, documentId,
       [hash |-> hashContent(content), status |-> "uploading", progress |-> 0,
        error |-> ""])
  /\ progress' = updateProgress(progress, fileIdx, [status |-> "uploading", progress |-> 10])
  /\ pc' = "setExtracting"
  /\ UNCHANGED <<analysisVars, apiKey, libraryVars, processingRef, isProcessing, lastIngest, files, fileIdx,
                 documentId, content, thrown, pairWeights, textChunks, claims, topics,
                 topicRelationships, runs, tasks, idVars>>

\* Step 3: status "extracting" is stored; the text is taken, and a text that is
\* empty after trimming throws.
StatusExtracting(blank) ==
  /\ pc = "setExtracting"
  /\ blank \/ chunksCut < MaxChunks
  /\ documents' = setDocumentStatus(documentId, "extracting", 15, "")
  /\ IF blank
     THEN /\ progress' = updateProgress(progress, fileIdx,
                           [status |-> "extracting", progress |-> 15])
          /\ thrown' = "No text content could be extracted from the file."
          /\ pc' = "catch"
     ELSE /\ progress' = updateProgress(progress, fileIdx,
                           [status |-> "extracting", progress |-> 30])
          /\ thrown' = thrown
          /\ pc' = "setChunking"
  /\ UNCHANGED <<analysisVars, apiKey, libraryVars, processingRef, isProcessing, lastIngest, files, fileIdx,
                 documentId, content, pairWeights, textChunks, claims, topics,
                 topicRelationships, runs, tasks, idVars>>

\* Step 4: status "chunking" is stored; chunkText cuts the text into n chunks.
StatusChunking(n) ==
  /\ pc = "setChunking"
  /\ n <= MaxChunks - chunksCut
  /\ chunksCut' = chunksCut + n
  /\ documents' = setDocumentStatus(documentId, "chunking", 35, "")
  /\ progress' = updateProgress(progress, fileIdx, [status |-> "chunking", progress |-> 35])
  /\ runs' = Put(runs, documentId,
       [index |-> fileIdx, totalChunks |-> n, completedChunks |-> 0, running |-> 0,
        queue |-> <<>>, seenDocIds |-> {}])
  /\ pc' = "putChunks"
  /\ UNCHANGED <<analysisVars, apiKey, libraryVars, processingRef, isProcessing, lastIngest, files, fileIdx,
                 documentId, content, thrown, pairWeights, textChunks, claims, topics,
                 topicRelationships, tasks, deletions, nextDocId, nextTopicId, nextRelId>>

\* db.textChunks.bulkPut(chunks) is done.
ChunksPut ==
  /\ pc = "putChunks"
  /\ textChunks' = textChunks \cup
       {[documentId |-> documentId, chunkIndex |-> c] : c \in 0..(runs[documentId].totalChunks - 1)}
  /\ progress' = updateProgress(progress, fileIdx, [progress |-> 40])
  /\ pc' = "setAnalyzing"
  /\ UNCHANGED <<analysisVars, apiKey, libraryVars, processingRef, isProcessing, lastIngest, files, fileIdx,
                 documentId, content, thrown, pairWeights, documents, claims, topics,
                 topicRelationships, runs, tasks, idVars>>

\* --------------------------------------------------------------- semaphore

\* A task that is given a slot calls extractClaims in the same turn, and with
\* it getAIClient, which reads the settings: the read is issued at once and
\* shows the settings as they are then. "start": it will show an API key;
\* "noKey": it will show none.
slotTaken == IF apiKey THEN "start" ELSE "noKey"

\* An acquire that never makes its caller wait.
acquireWithoutLimit(st, d, c) ==
  [run   |-> [st.run EXCEPT !.running = @ + 1],
   tasks |-> Put(st.tasks, <<d, c>>, NewTask(slotTaken))]

\* createSemaphore(limit).acquire(), called by the task of chunk c: it takes a
\* slot at once, or queues a callback that will take one.
acquire(st, d, c) ==
  IF st.run.running < SemaphoreLimit
  THEN [run   |-> [st.run EXCEPT !.running = @ + 1],
        tasks |-> Put(st.tasks, <<d, c>>, NewTask(slotTaken))]
  ELSE [run   |-> [st.run EXCEPT !.queue = Append(@, c)],
        tasks |-> Put(st.tasks, <<d, c>>, NewTask("queued"))]

\* A release() that gives the slot back and leaves the queue alone.
releaseWithoutNext(st, d) ==
  [run |-> [st.run EXCEPT !.running = @ - 1], tasks |-> st.tasks]

\* release(): gives the slot back and runs the first queued callback, if any.
release(st, d) ==
  LET freed == [st.run EXCEPT !.running = @ - 1]
  IN  IF freed.queue # <<>>
      THEN [run   |-> [freed EXCEPT !.running = @ + 1, !.queue = Tail(@)],
            tasks |-> [st.tasks EXCEPT ![<<d, Head(freed.queue)>>].pc = slotTaken]]
      ELSE [run |-> freed, tasks |-> st.tasks]

\* chunks.map(async (chunk) => { await semaphore.acquire(); ... }): every task
\* runs up to its first await, in chunk order.
RECURSIVE mapChunks(_, _, _, _)
mapChunks(st, d, c, n) ==
  IF c >= n THEN st ELSE mapChunks(acquire(st, d, c), d, c + 1, n)

\* Step 5: status "analyzing" is stored and the chunk tasks are created.
StatusAnalyzing ==
  /\ pc = "setAnalyzing"
  /\ documents' = setDocumentStatus(documentId, "analyzing", 45, "")
  /\ progress' = updateProgress(progress, fileIdx, [status |-> "analyzing", progress |-> 45])
  /\ LET st == mapChunks([run |-> runs[documentId], tasks |-> tasks], documentId, 0,
                         runs[documentId].totalChunks)
     IN  /\ runs' = [runs EXCEPT ![documentId] = st.run]
         /\ tasks' = st.tasks
  /\ pc' = "awaitAll"
  /\ UNCHANGED <<analysisVars, apiKey, libraryVars, processingRef, isProcessing, lastIngest, files, fileIdx,
                 documentId, content, thrown, pairWeights, textChunks, claims, topics,
                 topicRelationships, idVars>>

\* ------------------------------------------------------------ extractClaims

\* validateClaims(data): the well-typed items of data.claims, each with its
\* topics; a value without a claims array is an "Invalid response structure".
validateClaims(reply) ==
  IF reply.kind # "list"
  THEN [claims |-> <<>>, error |-> "Invalid response structure"]
  ELSE [claims |-> [i \in 1..Len(SelectSeq(reply.claims, LAMBDA it : it.wellTyped)) |->
                      SelectSeq(reply.claims, LAMBDA it : it.wellTyped)[i].topics],
        error  |-> ""]

\* An extractClaims that answers every unparseable reply by another call.
extractClaimsRetryingAgain(attempt, reply) ==
  CASE reply.kind = "reject" ->
         [retry |-> FALSE, claims |-> <<>>, error |-> "API error"]
    [] reply.kind = "unparseable" ->
         [retry |-> TRUE, claims |-> <<>>, error |-> ""]
    [] OTHER ->
         [retry |-> FALSE] @@ validateClaims(reply)

\* What extractClaims does with the reply to its attempt-th messages.create
\* call: retry (only after the first), or return the given result.
extractClaims(attempt, reply) ==
  CASE reply.kind = "reject" ->
         [retry |-> FALSE, claims |-> <<>>, error |-> "API error"]
    [] reply.kind = "unparseable" /\ attempt = 1 ->
         [retry |-> TRUE, claims |-> <<>>, error |-> ""]
    [] reply.kind = "unparseable" /\ attempt # 1 ->
         [retry |-> FALSE, claims |-> <<>>,
          error |-> "Failed to parse AI response after retry"]
    [] OTHER ->
         [retry |-> FALSE] @@ validateClaims(reply)

\* --------------------------------------------------------------- chunk task

\* 45 + Math.round((completedChunks / totalChunks) * 50)
chunkProgressOf(completed, total) == 45 + ((100 * completed + total) \div (2 * total))

\* Where the loops of step 6 stand for a task at claim ci, topic ti: the next
\* request it issues, or "finish" when result.claims is exhausted.
nextRequest(t) ==
  IF t.ci > Len(t.result) THEN "finish"
  ELSE IF t.ti > Len(t.result[t.ci]) THEN "putClaim"
  ELSE "topicRead"

\* The task of chunk c goes on after an await inside the try block, its locals
\* being t: it issues its next store request, or counts the chunk as
\* completed, publishes the progress and issues setDocumentStatus.
continueTask(d, c, t) ==
  IF nextRequest(t) = "finish"
  THEN LET p == chunkProgressOf(runs[d].completedChunks + 1, runs[d].totalChunks)
       IN  /\ runs' = [runs EXCEPT ![d].completedChunks = @ + 1]
           /\ progress' = updateProgress(progress, runs[d].index, [progress |-> p])
           /\ tasks' = [tasks EXCEPT ![<<d, c>>] =
                          [t EXCEPT !.pc = "setStatus", !.chunkProgress = p]]
  ELSE /\ tasks' = [tasks EXCEPT ![<<d, c>>] = [t EXCEPT !.pc = nextRequest(t)]]
       /\ UNCHANGED <<runs, progress>>

\* The task of chunk c leaves its try block: finally releases the slot, the
\* chunk promise settles, and Promise.all(chunkPromises) rejects on the first
\* rejection or resolves when the last promise is fulfilled. The caller is
\* only there to hear it while it awaits Promise.all for this document.
settleTask(d, c, outcome, message) ==
  LET st  == release([run   |-> runs[d],
                      tasks |-> [tasks EXCEPT ![<<d, c>>] = NewTask(outcome)]], d)
      col == Collect([runs EXCEPT ![d] = st.run], st.tasks, documentId)
  IN  /\ runs' = col.runs
      /\ tasks' = col.tasks
      /\ IF pc = "awaitAll" /\ documentId = d
         THEN IF outcome = "failed"
              THEN pc' = "catch" /\ thrown' = message
              ELSE IF \A k \in TasksOf(st.tasks, d) : st.tasks[k].pc = "done"
                   THEN pc' = "relRead" /\ thrown' = thrown
                   ELSE UNCHANGED <<pc, thrown>>
         ELSE UNCHANGED <<pc, thrown>>

\* The settings read of getAIClient has answered: without an API key
\* getAIClient throws (outside the try block of extractClaims), else the first
\* messages.create call goes out.
TaskStart(d, c) ==
  /\ <<d, c>> \in DOMAIN tasks
  /\ tasks[<<d, c>>].pc \in {"start", "noKey"}
  /\ IF tasks[<<d, c>>].pc = "start"
     THEN /\ tasks' = [tasks EXCEPT ![<<d, c>>].pc = "call1", ![<<d, c>>].calls = 1]
          /\ UNCHANGED <<runs, pc, thrown>>
     ELSE settleTask(d, c, "failed", "No API key configured.")
  /\ UNCHANGED <<analysisVars, apiKey, libraryVars, processingRef, isProcessing, progress, lastIngest, files,
                 fileIdx, documentId, content, pairWeights, storeVars, idVars>>

\* A messages.create call of the task comes back. When extractClaims returns,
\* result.error is logged (console.warn) and used no further.
TaskReply(d, c, reply) ==
  /\ <<d, c>> \in DOMAIN tasks
  /\ tasks[<<d, c>>].pc \in {"call1", "call2"}
  /\ LET t == tasks[<<d, c>>]
         r == extractClaims(t.calls, reply)
     IN  IF r.retry
         THEN /\ tasks' = [tasks EXCEPT ![<<d, c>>].pc = "call2",
                                         ![<<d, c>>].calls = @ + 1]
              /\ UNCHANGED <<runs, progress>>
         ELSE continueTask(d, c, [t EXCEPT !.calls = 0, !.result = r.claims])
  /\ UNCHANGED <<analysisVars, apiKey, libraryVars, processingRef, isProcessing, lastIngest, files, fileIdx, pc,
                 documentId, content, thrown, pairWeights, storeVars, idVars>>

\* upsertTopic up to its update or put: the lookup by normalizedLabel has
\* answered and isNewDoc is decided. first() takes the lowest id of the Topics
\* found; ids are numbered here in the order of their creation (createId
\* draws them at random).
upsertTopicLookup(rawLabel, d, seenDocIds) ==
  LET normalized == normalizeLabel(rawLabel)
      found == {id \in DOMAIN topics : topics[id].normalizedLabel = normalized}
  IN  IF found = {}
      THEN [existing |-> <<>>, isNewDoc |-> FALSE]
      ELSE LET id == CHOOSE x \in found : \A y \in found : x <= y
           IN  [existing |-> <<[id |-> id, claimCount |-> topics[id].claimCount,
                                documentCount |-> topics[id].documentCount]>>,
                isNewDoc |-> <<id, d>> \notin seenDocIds]

TaskTopicRead(d, c) ==
  /\ <<d, c>> \in DOMAIN tasks
  /\ tasks[<<d, c>>].pc = "topicRead"
  /\ LET t == tasks[<<d, c>>]
         r == upsertTopicLookup(t.result[t.ci][t.ti], d, runs[d].seenDocIds)
     IN  tasks' = [tasks EXCEPT ![<<d, c>>] =
                     [t EXCEPT !.pc = "topicWrite", !.existing = r.existing,
                               !.isNewDoc = r.isNewDoc]]
  /\ UNCHANGED <<analysisVars, apiKey, libraryVars, processingRef, isProcessing, progress, lastIngest, files,
                 fileIdx, pc, documentId, content, thrown, pairWeights, storeVars, runs, idVars>>

\* The rest of upsertTopic: the update of the topic found, with the counts
\* taken from the record as it was read, or the put of a new Topic.
upsertTopicStore(rawLabel, existing, isNewDoc) ==
  IF existing # <<>>
  THEN [id     |-> existing[1].id,
        topics |-> Update(topics, existing[1].id,
                     IF isNewDoc
                     THEN [claimCount    |-> existing[1].claimCount + 1,
                           documentCount |-> existing[1].documentCount + 1]
                     ELSE [claimCount    |-> existing[1].claimCount + 1])]
  ELSE [id     |-> nextTopicId + 1,
        topics |-> Put(topics, nextTopicId + 1,
                     [label |-> trim(rawLabel), normalizedLabel |-> normalizeLabel(rawLabel),
                      claimCount |-> 1, documentCount |-> 1])]

TaskTopicWrite(d, c) ==
  /\ <<d, c>> \in DOMAIN tasks
  /\ tasks[<<d, c>>].pc = "topicWrite"
  /\ LET t == tasks[<<d, c>>]
         w == upsertTopicStore(t.result[t.ci][t.ti], t.existing, t.isNewDoc)
         n == [t EXCEPT !.ti = @ + 1, !.topicIds = Append(@, w.id),
                        !.existing = <<>>, !.isNewDoc = FALSE]
     IN  /\ topics' = w.topics
         /\ nextTopicId' = IF t.existing = <<>> THEN nextTopicId + 1 ELSE nextTopicId
         /\ runs' = [runs EXCEPT ![d].seenDocIds = @ \cup {<<w.id, d>>}]
         /\ tasks' = [tasks EXCEPT ![<<d, c>>] = [n EXCEPT !.pc = nextRequest(n)]]
  /\ UNCHANGED <<analysisVars, apiKey, libraryVars, processingRef, isProcessing, progress, lastIngest, files,
                 fileIdx, pc, documentId, content, thrown, pairWeights, documents, textChunks,
                 claims, topicRelationships, chunksCut, deletions, nextDocId, nextRelId>>

\* db.claims.put of the claim at hand is done.
TaskClaimPut(d, c) ==
  /\ <<d, c>> \in DOMAIN tasks
  /\ tasks[<<d, c>>].pc = "putClaim"
  /\ LET t == tasks[<<d, c>>]
     IN  /\ claims' = claims \cup
              {[id |-> <<d, c, t.ci>>, documentId |-> d, chunkIndex |-> c,
                topicIds |-> t.topicIds]}
         /\ continueTask(d, c, [t EXCEPT !.ci = @ + 1, !.ti = 1, !.topicIds = <<>>])
  /\ UNCHANGED <<analysisVars, apiKey, libraryVars, processingRef, isProcessing, lastIngest, files, fileIdx, pc,
                 documentId, content, thrown, pairWeights, documents, textChunks, topics,
                 topicRelationships, idVars>>

\* setDocumentStatus(documentId, "analyzing", chunkProgress) of the task is
\* done; the task ends.
TaskStatusStored(d, c) ==
  /\ <<d, c>> \in DOMAIN tasks
  /\ tasks[<<d, c>>].pc = "setStatus"
  /\ documents' = setDocumentStatus(d, "analyzing", tasks[<<d, c>>].chunkProgress, "")
  /\ settleTask(d, c, "done", "")
  /\ UNCHANGED <<analysisVars, apiKey, libraryVars, processingRef, isProcessing, progress, lastIngest, files,
                 fileIdx, documentId, content, pairWeights, textChunks, claims, topics,
                 topicRelationships, idVars>>

\* ------------------------------------------------ createTopicRelationships

\* [a, b] = tA < tB ? [tA, tB] : [tB, tA]
canonicalPair(tA, tB) == IF tA < tB THEN <<tA, tB>> ELSE <<tB, tA>>

\* The order of the claims array (any fixed order gives the same weights).
claimBefore(x, y) ==
  \/ x.chunkIndex < y.chunkIndex
  \/ x.chunkIndex = y.chunkIndex /\ x.id[3] < y.id[3]

\* createTopicRelationships without "if (tA === tB) continue" in the loop over
\* pairs of claims.
computePairWeightsPairingEqualTopics(d) ==
  LET docClaims == {cl \in claims : cl.documentId = d}
      within(key) ==
        {<<cl, i, j>> \in docClaims \X (1..4) \X (1..4) :
           /\ i < j /\ j <= Len(cl.topicIds)
           /\ canonicalPair(cl.topicIds[i], cl.topicIds[j]) = key}
      across(key) ==
        {<<x, y, i, j>> \in docClaims \X docClaims \X (1..4) \X (1..4) :
           /\ claimBefore(x, y)
           /\ i <= Len(x.topicIds) /\ j <= Len(y.topicIds)
           /\ canonicalPair(x.topicIds[i], y.topicIds[j]) = key}
      ids  == UNION {{cl.topicIds[i] : i \in DOMAIN cl.topicIds} : cl \in docClaims}
      keys == {key \in ids \X ids : within(key) # {} \/ across(key) # {}}
  IN  [key \in keys |-> Cardinality(within(key)) + Cardinality(across(key))]

\* The pairWeights map createTopicRelationships builds from the claims of a
\* document: one per pair of positions i < j of one claim, and one per pair of
\* different topic ids taken from two different claims.
computePairWeights(d) ==
  LET docClaims == {cl \in claims : cl.documentId = d}
      within(key) ==
        {<<cl, i, j>> \in docClaims \X (1..4) \X (1..4) :
           /\ i < j /\ j <= Len(cl.topicIds)
           /\ canonicalPair(cl.topicIds[i], cl.topicIds[j]) = key}
      across(key) ==
        {<<x, y, i, j>> \in docClaims \X docClaims \X (1..4) \X (1..4) :
           /\ claimBefore(x, y)
           /\ i <= Len(x.topicIds) /\ j <= Len(y.topicIds)
           /\ x.topicIds[i] # y.topicIds[j]
           /\ canonicalPair(x.topicIds[i], y.topicIds[j]) = key}
      ids  == UNION {{cl.topicIds[i] : i \in DOMAIN cl.topicIds} : cl \in docClaims}
      keys == {key \in ids \X ids : within(key) # {} \/ across(key) # {}}
  IN  [key \in keys |-> Cardinality(within(key)) + Cardinality(across(key))]

\* Promise.all has resolved and the claims of the document are read.
RelationshipsRead ==
  /\ pc = "relRead"
  /\ pairWeights' = computePairWeights(documentId)
  /\ pc' = IF DOMAIN pairWeights' = {} THEN "setComplete" ELSE "relUpsert"
  /\ UNCHANGED <<analysisVars, apiKey, libraryVars, processingRef, isProcessing, progress, lastIngest, files,
                 fileIdx, documentId, content, thrown, storeVars, runs, tasks, idVars>>

\* One turn of the upsert loop: the "related" relationship of the pair gains
\* the weight, or is created with it.
upsertRelationship(key, weight) ==
  LET found == {r \in DOMAIN topicRelationships :
                  /\ topicRelationships[r].sourceId = key[1]
                  /\ topicRelationships[r].targetId = key[2]
                  /\ topicRelationships[r].type = "related"}
  IN  IF found # {}
      THEN LET r == CHOOSE x \in found : \A y \in found : x <= y
           IN  Update(topicRelationships, r,
                      [weight |-> topicRelationships[r].weight + weight])
      ELSE Put(topicRelationships, nextRelId + 1,
               [sourceId |-> key[1], targetId |-> key[2], type |-> "related",
                weight |-> weight])

RelationshipUpserted ==
  /\ pc = "relUpsert"
  /\ LET key == CHOOSE k \in DOMAIN pairWeights :
                  \A o \in DOMAIN pairWeights :
                     k[1] < o[1] \/ (k[1] = o[1] /\ k[2] <= o[2])
     IN  /\ topicRelationships' = upsertRelationship(key, pairWeights[key])
         /\ nextRelId' = IF DOMAIN topicRelationships' = DOMAIN topicRelationships
                         THEN nextRelId ELSE nextRelId + 1
         /\ pairWeights' = [k \in DOMAIN pairWeights \ {key} |-> pairWeights[k]]
  /\ pc' = IF DOMAIN pairWeights' = {} THEN "setComplete" ELSE "relUpsert"
  /\ UNCHANGED <<analysisVars, apiKey, libraryVars, processingRef, isProcessing, progress, lastIngest, files,
                 fileIdx, documentId, content, thrown, documents, textChunks, claims, topics,
                 runs, tasks, chunksCut, deletions, nextDocId, nextTopicId>>

\* Step 7: status "complete" is stored; ingestSingleFile returns.
StatusComplete ==
  /\ pc = "setComplete"
  /\ documents' = setDocumentStatus(documentId, "complete", 100, "")
  /\ loopNext(updateProgress(progress, fileIdx, [status |-> "complete", progress |-> 100]))
  /\ UNCHANGED <<analysisVars, apiKey, libraryVars, lastIngest, textChunks, claims, topics, topicRelationships,
                 chunksCut, deletions, nextTopicId, nextRelId>>

\* The catch block: status "error" is stored with the message; ingestSingleFile
\* returns.
StatusError ==
  /\ pc = "catch"
  /\ documents' = setDocumentStatus(documentId, "error", 0, thrown)
  /\ loopNext(updateProgress(progress, fileIdx,
                [status |-> "error", progress |-> 0, error |-> thrown]))
  /\ UNCHANGED <<analysisVars, apiKey, libraryVars, lastIngest, textChunks, claims, topics, topicRelationships,
                 chunksCut, deletions, nextTopicId, nextRelId>>

\* ---------------------------------------------------------- deleteDocument

\* deleteDocument(id): one transaction over documents, textChunks, claims,
\* topics and topicRelationships.
deleteDocument(id) ==
  /\ id \in DOMAIN documents
  /\ deletions < MaxDeletes
  /\ deletions' = deletions + 1
  /\ LET docClaims == {cl \in claims : cl.documentId = id}
         topicClaimCounts(t) ==
           Cardinality({<<cl, i>> \in docClaims \X (1..4) :
                          i <= Len(cl.topicIds) /\ cl.topicIds[i] = t})
         touched == {t \in DOMAIN topics : topicClaimCounts(t) > 0}
         orphanedTopicIds ==
           {t \in touched : topics[t].claimCount - topicClaimCounts(t) <= 0}
         kept == BulkDelete(topics, orphanedTopicIds)
     IN  /\ topics' =
              [t \in DOMAIN kept |->
                 IF t \in touched
                 THEN [kept[t] EXCEPT
                         !.claimCount = @ - topicClaimCounts(t),
                         !.documentCount = IF @ - 1 > 0 THEN @ - 1 ELSE 0]
                 ELSE kept[t]]
         /\ topicRelationships' =
              BulkDelete(topicRelationships,
                {r \in DOMAIN topicRelationships :
                   \/ topicRelationships[r].sourceId \in orphanedTopicIds
                   \/ topicRelationships[r].targetId \in orphanedTopicIds})
         /\ claims' = claims \ docClaims
         /\ textChunks' = {ch \in textChunks : ch.documentId # id}
         /\ documents' = BulkDelete(documents, {id})
  /\ UNCHANGED <<analysisVars, apiKey, libraryVars, processingRef, isProcessing, progress, lastIngest, files,
                 fileIdx, pc, documentId, content, thrown, pairWeights, runs, tasks, chunksCut,
                 nextDocId, nextTopicId, nextRelId>>

\* ---------------------------------------------------------------- settings

\* handleSaveApiKey of the settings page: the key is stored, or removed.
handleSaveApiKey(key) ==
  /\ key # apiKey
  /\ apiKey' = key
  /\ UNCHANGED <<processingRef, isProcessing, progress, lastIngest, files, fileIdx, pc,
                 documentId, content, thrown, pairWeights, storeVars, runs, tasks, idVars,
                 analysisVars, libraryVars>>

\* -------------------------------------------------------------------- Next

\* The orchestrator and the settings page, with an oracle whose replies carry
\* no claim.
Control ==
  \/ \E n \in 1..MaxFiles : ingest(n)
  \/ \E fileContent \in DocIds : HashChecked(fileContent)
  \/ DocumentPut
  \/ \E blank \in BOOLEAN : StatusExtracting(blank)
  \/ \E n \in 1..MaxChunks : StatusChunking(n)
  \/ ChunksPut
  \/ StatusAnalyzing
  \/ \E d \in DocIds, c \in ChunkIdx : TaskStart(d, c)
  \/ \E d \in DocIds, c \in ChunkIdx, reply \in ClaimlessReplies : TaskReply(d, c, reply)
  \/ \E d \in DocIds, c \in ChunkIdx : TaskStatusStored(d, c)
  \/ RelationshipsRead
  \/ StatusComplete
  \/ StatusError
  \/ \E key \in BOOLEAN : handleSaveApiKey(key)

\* What replies with claims add: step 6 and the relationship upserts; and
\* deleteDocument.
Data ==
  \/ \E d \in DocIds, c \in ChunkIdx, reply \in ClaimReplies : TaskReply(d, c, reply)
  \/ \E d \in DocIds, c \in ChunkIdx : TaskTopicRead(d, c)
  \/ \E d \in DocIds, c \in ChunkIdx : TaskTopicWrite(d, c)
  \/ \E d \in DocIds, c \in ChunkIdx : TaskClaimPut(d, c)
  \/ RelationshipUpserted
  \/ \E id \in DocIds : deleteDocument(id)

Next == Control \/ Data

Spec == Init /\ [][Next]_vars

SpecControl == Init /\ [][Control]_vars

\* ------------------------------------------------------------ store faults

\* A store call awaited inside the try block of ingestSingleFile rejects: the
\* catch block takes over with the error's message.
StoreCallRejected ==
  /\ pc \in {"hash", "putDocument", "setExtracting", "setChunking", "putChunks",
             "setAnalyzing", "relRead", "relUpsert", "setComplete"}
  /\ pc' = "catch"
  /\ thrown' = "Store call failed"
  /\ UNCHANGED <<analysisVars, apiKey, libraryVars, processingRef, isProcessing, progress, lastIngest, files,
                 fileIdx, documentId, content, pairWeights, storeVars, runs, tasks, idVars>>

\* The status write of a chunk task rejects: the task's promise rejects and
\* its finally block releases the slot.
TaskStatusRejected(d, c) ==
  /\ <<d, c>> \in DOMAIN tasks
  /\ tasks[<<d, c>>].pc = "setStatus"
  /\ settleTask(d, c, "failed", "Store call failed")
  /\ UNCHANGED <<analysisVars, apiKey, libraryVars, processingRef, isProcessing, progress, lastIngest, files,
                 fileIdx, documentId, content, pairWeights, storeVars, idVars>>

\* The status write awaited inside the catch block rejects: nothing catches
\* it, so ingestSingleFile rejects, and so does ingest at its await in the for
\* loop: the lines after the loop are never run.
StatusErrorRejected ==
  /\ pc = "catch"
  /\ pc' = "rejected"
  /\ UNCHANGED <<analysisVars, apiKey, libraryVars, processingRef, isProcessing, progress, lastIngest, files,
                 fileIdx, documentId, content, thrown, pairWeights, storeVars, runs, tasks,
                 idVars>>

Faults ==
  \/ StoreCallRejected
  \/ \E d \in DocIds, c \in ChunkIdx : TaskStatusRejected(d, c)
  \/ StatusErrorRejected

\* The step the orchestrator is waiting for: the awaited call returns or fails.
OrchestratorStep ==
  \/ \E fileContent \in DocIds : HashChecked(fileContent)
  \/ DocumentPut
  \/ \E blank \in BOOLEAN : StatusExtracting(blank)
  \/ \E n \in 1..MaxChunks : StatusChunking(n)
  \/ ChunksPut
  \/ StatusAnalyzing
  \/ RelationshipsRead
  \/ StatusComplete
  \/ StatusError
  \/ StoreCallRejected
  \/ StatusErrorRejected

\* The step chunk task (d, c) is waiting for: its call returns or fails.
TaskStep(d, c) ==
  \/ TaskStart(d, c)
  \/ \E reply \in ClaimlessReplies : TaskReply(d, c, reply)
  \/ TaskStatusStored(d, c)
  \/ TaskStatusRejected(d, c)

\* Every oracle call and every store call eventually returns or fails.
Fairness ==
  /\ WF_vars(OrchestratorStep)
  /\ \A d \in DocIds, c \in ChunkIdx : WF_vars(TaskStep(d, c))

NextLive == Control \/ Faults

SpecLive == Init /\ [][NextLive]_vars /\ Fairness

\* ------------------------------------------------------- duplicate uploads

\* A Document an earlier session of the page has stored: its file held no
\* text, so step 3 threw and the catch block stored status "error". Its id is
\* none of the ids this session creates.
EarlierDoc == MaxFiles + 1

InitDuplicate ==
  /\ apiKey \in BOOLEAN
  /\ processingRef = FALSE
  /\ isProcessing = FALSE
  /\ progress = <<>>
  /\ lastIngest = "none"
  /\ files = 0
  /\ fileIdx = 0
  /\ pc = "idle"
  /\ documentId = NoDoc
  /\ content = NoDoc
  /\ thrown = ""
  /\ pairWeights = <<>>
  /\ documents = Put(<<>>, EarlierDoc,
       [hash |-> hashContent(EarlierDoc), status |-> "error", progress |-> 0,
        error |-> "No text content could be extracted from the file."])
  /\ textChunks = {}
  /\ claims = {}
  /\ topics = <<>>
  /\ topicRelationships = <<>>
  /\ runs = <<>>
  /\ tasks = <<>>
  /\ chunksCut = 0
  /\ deletions = 0
  /\ nextDocId = 0
  /\ nextTopicId = 0
  /\ nextRelId = 0
  /\ contradictions = {}
  /\ knowledgeGaps = {}
  /\ researchQuestions = {}
  /\ detection = [p \in Pages |-> IdleDetection]
  /\ analysis = [p \in Pages |-> IdleAnalysis]
  /\ detectionRuns = 0
  /\ analysisRuns = 0
  /\ pending = NonePending
  /\ chunker = IdleChunker
  /\ generator = IdleGenerator
  /\ finder = IdleFinder
  /\ call = NoCall

\* The files of a batch may also hold the content of the earlier Document.
NextDuplicate == Control \/ HashChecked(EarlierDoc)

SpecDuplicate == InitDuplicate /\ [][NextDuplicate]_vars

\* ------------------------------------------------ runContradictionDetection

\* A table serves the requests made to it in the order they were made: who
\* (the run of page p as <<p, 0>>, its worker w as <<p, w>>) makes a request to a table, the
\* oldest request of a table is who's, and that request is answered.
issued(pend, table, who) == [pend EXCEPT ![table] = Append(@, who)]

isNext(table, who) == pending[table] # <<>> /\ Head(pending[table]) = who

served(pend, table) == [pend EXCEPT ![table] = Tail(@)]

\* claimA.topicIds.some(topicId => claimB.topicIds.includes(topicId))
sharedTopic(claimA, claimB) ==
  \E i \in DOMAIN claimA.topicIds : \E j \in DOMAIN claimB.topicIds :
    claimA.topicIds[i] = claimB.topicIds[j]

\* The candidate pairs of generateContradictionCandidates: two claims that
\* share a topic (of the claims of one type).
generateContradictionCandidates(cs) ==
  {pair \in SUBSET cs :
     /\ Cardinality(pair) = 2
     /\ \E claimA \in pair, claimB \in pair : claimA # claimB /\ sharedTopic(claimA, claimB)}

\* The finally block of runContradictionDetection, after setError(err) if any:
\* the locals of the call are gone.
finishDetection(p, err) ==
  detection' = [detection EXCEPT ![p] = [IdleDetection EXCEPT !.error = err]]

\* runContradictionDetection on page p, up to await getAIClient().
runContradictionDetection(p) ==
  /\ ~detection[p].isDetecting
  /\ detectionRuns < MaxRuns
  /\ detectionRuns' = detectionRuns + 1
  /\ detection' = [detection EXCEPT ![p] =
                     [IdleDetection EXCEPT !.isDetecting = TRUE, !.pc = "client",
                                           !.run = detectionRuns + 1]]
  /\ UNCHANGED <<contradictions, gapVars, pending, apiKey, libraryVars, ingestVars, storeVars, idVars>>

\* getAIClient and getModelName have answered: without a key getAIClient throws.
DetectionClient(p) ==
  /\ detection[p].pc = "client"
  /\ IF apiKey
     THEN detection' = [detection EXCEPT ![p].pc = "claims"]
     ELSE finishDetection(p, "No API key")
  /\ UNCHANGED <<contradictions, detectionRuns, gapVars, pending, apiKey, libraryVars, ingestVars,
                 storeVars, idVars>>

\* db.claims.toArray() has answered.
DetectionClaimsRead(p) ==
  /\ detection[p].pc = "claims"
  /\ IF Cardinality(claims) < 2
     THEN finishDetection(p, "Need at least 2 claims")
     ELSE detection' = [detection EXCEPT ![p] =
                          [@ EXCEPT !.pc = "detect",
                                    !.candidates =
                                      {{cl.id : cl \in pair} :
                                         pair \in generateContradictionCandidates(claims)}]]
  /\ UNCHANGED <<contradictions, detectionRuns, gapVars, pending, apiKey, libraryVars, ingestVars,
                 storeVars, idVars>>

\* detectContradictions has returned its contradictions, each under a fresh
\* id and with the ids of its two claims: the oracle's verdict was kept for
\* the candidate pairs kept.
DetectionDetected(p, kept) ==
  /\ detection[p].pc = "detect"
  /\ kept \subseteq detection[p].candidates
  /\ Cardinality(kept) <= MaxDetected
  /\ detection' = [detection EXCEPT ![p] =
                     [@ EXCEPT !.pc = "clear",
                               !.detected = {<<detection[p].run, pair>> : pair \in kept}]]
  /\ pending' = issued(pending, "contradictions", <<p, 0>>)
  /\ UNCHANGED <<contradictions, detectionRuns, gapVars, apiKey, libraryVars, ingestVars, storeVars,
                 idVars>>

\* db.contradictions.clear() has answered.
ContradictionsCleared(p) ==
  /\ detection[p].pc = "clear"
  /\ isNext("contradictions", <<p, 0>>)
  /\ contradictions' = {}
  /\ IF detection[p].detected # {}
     THEN /\ detection' = [detection EXCEPT ![p].pc = "put"]
          /\ pending' = issued(served(pending, "contradictions"), "contradictions", <<p, 0>>)
     ELSE /\ finishDetection(p, "")
          /\ pending' = served(pending, "contradictions")
  /\ UNCHANGED <<detectionRuns, gapVars, apiKey, libraryVars, ingestVars, storeVars, idVars>>

\* db.contradictions.bulkPut(detected) has answered.
ContradictionsPut(p) ==
  /\ detection[p].pc = "put"
  /\ isNext("contradictions", <<p, 0>>)
  /\ contradictions' = contradictions \cup detection[p].detected
  /\ finishDetection(p, "")
  /\ pending' = served(pending, "contradictions")
  /\ UNCHANGED <<detectionRuns, gapVars, apiKey, libraryVars, ingestVars, storeVars, idVars>>

\* ------------------------------------------------------------ runGapAnalysis

\* The records analyzeGaps returned to run r, and those generateQuestions
\* returned for its gap g: each under a fresh id.
GapsOf(r, n) == {<<r, g>> : g \in 1..n}

QuestionsOf(r, g, m) == {<<r, g, q>> : q \in 1..m}

Min(a, b) == IF a < b THEN a ELSE b

\* The finally block of runGapAnalysis, after setError(err) if any: the locals
\* of the call are gone. The clears the run made stay on record until the next
\* run of the page.
finishAnalysis(a, err) ==
  [IdleAnalysis EXCEPT !.error = err, !.gapsCleared = a.gapsCleared,
                       !.questionsCleared = a.questionsCleared]

\* A processNextGap that reads the gap index after its increment has been
\* undone by a stale copy: the worker takes the gap taken last.
processNextGapRereading(a, w) ==
  LET next == IF a.gapIndex < a.detectedGaps
              THEN [a EXCEPT !.gapIndex = @ + 1,
                             !.workers[w] = [pc |-> "generate", gap |-> a.gapIndex,
                                             generated |-> 0]]
              ELSE [a EXCEPT !.workers[w] = [pc |-> "done", gap |-> 0, generated |-> 0]]
  IN  IF \A v \in DOMAIN next.workers : next.workers[v].pc = "done"
      THEN finishAnalysis(next, "")
      ELSE next

\* processNextGap of worker w after its await: the while loop takes the next
\* gap index, or the worker ends; Promise.all ends with the last worker.
processNextGap(a, w) ==
  LET next == IF a.gapIndex < a.detectedGaps
              THEN [a EXCEPT !.gapIndex = @ + 1,
                             !.workers[w] = [pc |-> "generate", gap |-> a.gapIndex + 1,
                                             generated |-> 0]]
              ELSE [a EXCEPT !.workers[w] = [pc |-> "done", gap |-> 0, generated |-> 0]]
  IN  IF \A v \in DOMAIN next.workers : next.workers[v].pc = "done"
      THEN finishAnalysis(next, "")
      ELSE next

\* A runGapAnalysis that stores the detected gaps without clearing first.
afterAnalyzeGapsSkippingClears(n) == IF n > 0 THEN "putGaps" ELSE "clearGaps"

\* The step that follows analyzeGaps: lines 69-70 clear both tables, whatever
\* the number of gaps.
afterAnalyzeGaps(n) == "clearGaps"

\* runGapAnalysis on page p, up to await getAIClient().
runGapAnalysis(p) ==
  /\ ~analysis[p].isAnalyzing
  /\ analysisRuns < MaxRuns
  /\ analysisRuns' = analysisRuns + 1
  /\ analysis' = [analysis EXCEPT ![p] =
                    [IdleAnalysis EXCEPT !.isAnalyzing = TRUE, !.pc = "client",
                                         !.run = analysisRuns + 1]]
  /\ UNCHANGED <<knowledgeGaps, researchQuestions, contradictionVars, pending, apiKey, libraryVars,
                 ingestVars, storeVars, idVars>>

\* getAIClient and getModelName have answered: without a key getAIClient throws.
AnalysisClient(p) ==
  /\ analysis[p].pc = "client"
  /\ analysis' = [analysis EXCEPT ![p] =
                    IF apiKey THEN [@ EXCEPT !.pc = "data"]
                              ELSE finishAnalysis(@, "No API key")]
  /\ UNCHANGED <<knowledgeGaps, researchQuestions, analysisRuns, contradictionVars, pending,
                 apiKey, libraryVars, ingestVars, storeVars, idVars>>

\* db.topics.toArray() has answered (the reads of topicRelationships and claims
\* that follow feed analyzeGaps only).
AnalysisDataRead(p) ==
  /\ analysis[p].pc = "data"
  /\ analysis' = [analysis EXCEPT ![p] =
                    IF DOMAIN topics = {} THEN finishAnalysis(@, "No topics found")
                                          ELSE [@ EXCEPT !.pc = "analyze"]]
  /\ UNCHANGED <<knowledgeGaps, researchQuestions, analysisRuns, contradictionVars, pending,
                 apiKey, libraryVars, ingestVars, storeVars, idVars>>

\* What client.messages.create gives findAIGaps or generateQuestions: a
\* rejection, a text parseJsonResponse throws on, or a JSON value of which the
\* validation keeps some items, room at most.
AnalysisReplies(room) ==
  {[kind |-> "reject", items |-> 0], [kind |-> "unparseable", items |-> 0]}
    \cup {[kind |-> "list", items |-> k] : k \in 0..room}

\* The try block of findAIGaps or generateQuestions throws on this reply.
oracleFailed(reply) == reply.kind # "list"

\* A findAIGaps whose try block has no catch: the failure reaches the caller.
findAIGapsWithoutCatch(reply) ==
  [thrown |-> oracleFailed(reply), gaps |-> IF oracleFailed(reply) THEN 0 ELSE reply.items]

\* findAIGaps with stored topics: the gaps of the validated reply, or none
\* when the try block throws (catch: console.warn, return []).
findAIGaps(reply) ==
  [thrown |-> FALSE, gaps |-> IF oracleFailed(reply) THEN 0 ELSE reply.items]

\* analyzeGaps: [...structuralGaps, ...densityGaps, ...aiGaps], the first two
\* computed before the oracle is called.
analyzeGaps(structuralGaps, densityGaps, reply) ==
  [thrown |-> findAIGaps(reply).thrown,
   failed |-> oracleFailed(reply),
   local  |-> structuralGaps + densityGaps,
   gaps   |-> structuralGaps + densityGaps + findAIGaps(reply).gaps]

\* generateQuestions: the questions of the validated reply, or none when the
\* try block throws (catch: console.warn, return []).
generateQuestions(reply) ==
  [failed |-> oracleFailed(reply), questions |-> IF oracleFailed(reply) THEN 0 ELSE reply.items]

\* analyzeGaps has returned its gaps and the next request goes to
\* db.knowledgeGaps; had it thrown, the catch block of runGapAnalysis would
\* end the run.
AnalysisGapsDetected(p, result) ==
  /\ analysis[p].pc = "analyze"
  /\ IF result.thrown
     THEN /\ analysis' = [analysis EXCEPT ![p] = finishAnalysis(@, "Failed to analyze gaps")]
          /\ UNCHANGED pending
     ELSE /\ analysis' = [analysis EXCEPT ![p] =
                            [@ EXCEPT !.pc = afterAnalyzeGaps(result.gaps),
                                      !.detectedGaps = result.gaps,
                                      !.localGaps = result.local,
                                      !.aiFailed = result.failed]]
          /\ pending' = issued(pending, "knowledgeGaps", <<p, 0>>)
  /\ UNCHANGED <<knowledgeGaps, researchQuestions, analysisRuns, contradictionVars, apiKey, libraryVars,
                 ingestVars, storeVars, idVars>>

\* db.knowledgeGaps.clear() has answered.
GapsCleared(p) ==
  /\ analysis[p].pc = "clearGaps"
  /\ isNext("knowledgeGaps", <<p, 0>>)
  /\ knowledgeGaps' = {}
  /\ analysis' = [analysis EXCEPT ![p] =
                    [@ EXCEPT !.pc = "clearQuestions", !.gapsCleared = @ + 1]]
  /\ pending' = issued(served(pending, "knowledgeGaps"), "researchQuestions", <<p, 0>>)
  /\ UNCHANGED <<researchQuestions, analysisRuns, contradictionVars, apiKey, libraryVars, ingestVars,
                 storeVars, idVars>>

\* db.researchQuestions.clear() has answered. With no gap detected there is no
\* worker, and the run ends.
QuestionsCleared(p) ==
  /\ analysis[p].pc = "clearQuestions"
  /\ isNext("researchQuestions", <<p, 0>>)
  /\ researchQuestions' = {}
  /\ IF analysis[p].detectedGaps > 0
     THEN /\ analysis' = [analysis EXCEPT ![p] =
                            [@ EXCEPT !.pc = "putGaps", !.questionsCleared = @ + 1]]
          /\ pending' = issued(served(pending, "researchQuestions"), "knowledgeGaps", <<p, 0>>)
     ELSE /\ analysis' = [analysis EXCEPT ![p] =
                            finishAnalysis([@ EXCEPT !.questionsCleared = @ + 1], "")]
          /\ pending' = served(pending, "researchQuestions")
  /\ UNCHANGED <<knowledgeGaps, analysisRuns, contradictionVars, apiKey, libraryVars, ingestVars,
                 storeVars, idVars>>

\* db.knowledgeGaps.bulkPut(detectedGaps) has answered; the workers are made, and
\* each runs up to its first await generateQuestions.
GapsPut(p) ==
  /\ analysis[p].pc = "putGaps"
  /\ isNext("knowledgeGaps", <<p, 0>>)
  /\ knowledgeGaps' = knowledgeGaps \cup GapsOf(analysis[p].run, analysis[p].detectedGaps)
  /\ LET length == Min(CONCURRENCY_LIMIT, analysis[p].detectedGaps)
     IN  analysis' = [analysis EXCEPT ![p] =
                        [@ EXCEPT !.pc = "workers",
                                  !.gapIndex = length,
                                  !.workers = [w \in 1..length |->
                                                 [pc |-> "generate", gap |-> w,
                                                  generated |-> 0]]]]
  /\ pending' = served(pending, "knowledgeGaps")
  /\ UNCHANGED <<researchQuestions, analysisRuns, contradictionVars, apiKey, libraryVars, ingestVars,
                 storeVars, idVars>>

\* generateQuestions has returned its questions to worker w.
QuestionsGenerated(p, w, result) ==
  /\ analysis[p].pc = "workers"
  /\ w \in DOMAIN analysis[p].workers
  /\ analysis[p].workers[w].pc = "generate"
  /\ LET m == result.questions
         a == [analysis[p] EXCEPT
                 !.questions = @ \cup QuestionsOf(analysis[p].run,
                                                  analysis[p].workers[w].gap, m),
                 !.failedGaps = IF result.failed
                                THEN @ \cup {analysis[p].workers[w].gap} ELSE @]
     IN  IF m > 0
         THEN /\ analysis' = [analysis EXCEPT ![p] =
                                [a EXCEPT !.workers[w].pc = "put",
                                          !.workers[w].generated = m]]
              /\ pending' = issued(pending, "researchQuestions", <<p, w>>)
         ELSE /\ analysis' = [analysis EXCEPT ![p] = processNextGap(a, w)]
              /\ UNCHANGED pending
  /\ UNCHANGED <<knowledgeGaps, researchQuestions, analysisRuns, contradictionVars, apiKey, libraryVars,
                 ingestVars, storeVars, idVars>>

\* db.researchQuestions.bulkPut(generated) of worker w has answered.
QuestionsPut(p, w) ==
  /\ analysis[p].pc = "workers"
  /\ w \in DOMAIN analysis[p].workers
  /\ analysis[p].workers[w].pc = "put"
  /\ isNext("researchQuestions", <<p, w>>)
  /\ researchQuestions' =
       researchQuestions \cup QuestionsOf(analysis[p].run, analysis[p].workers[w].gap,
                                          analysis[p].workers[w].generated)
  /\ analysis' = [analysis EXCEPT ![p] = processNextGap(@, w)]
  /\ pending' = served(pending, "researchQuestions")
  /\ UNCHANGED <<knowledgeGaps, analysisRuns, contradictionVars, apiKey, libraryVars, ingestVars,
                 storeVars, idVars>>

\* ------------------------------------------------------- analysis behaviours

\* The state Spec reaches when ingest of one file of two chunks has returned,
\* the oracle having answered ItemCellsBias for both chunks.
Ingested ==
  /\ apiKey \in BOOLEAN
  /\ processingRef = FALSE
  /\ isProcessing = FALSE
  /\ progress = <<[documentId |-> 1, status |-> "complete", progress |-> 100, error |-> ""]>>
  /\ lastIngest = "accepted"
  /\ files = 0
  /\ fileIdx = 0
  /\ pc = "idle"
  /\ documentId = NoDoc
  /\ content = NoDoc
  /\ thrown = ""
  /\ pairWeights = <<>>
  /\ documents = <<[hash |-> hashContent(1), status |-> "complete", progress |-> 100,
                    error |-> ""]>>
  /\ textChunks = {[documentId |-> 1, chunkIndex |-> c] : c \in {0, 1}}
  /\ claims = {[id |-> <<1, c, 1>>, documentId |-> 1, chunkIndex |-> c,
                topicIds |-> <<1, 2>>] : c \in {0, 1}}
  /\ topics = <<[label |-> LabelCells, normalizedLabel |-> normalizeLabel(LabelCells),
                 claimCount |-> 2, documentCount |-> 1],
                [label |-> LabelBias, normalizedLabel |-> normalizeLabel(LabelBias),
                 claimCount |-> 2, documentCount |-> 1]>>
  /\ topicRelationships = <<[sourceId |-> 1, targetId |-> 2, type |-> "related",
                             weight |-> 4]>>
  /\ runs = <<>>
  /\ tasks = <<>>
  /\ chunksCut = 2
  /\ deletions = 0
  /\ nextDocId = 1
  /\ nextTopicId = 2
  /\ nextRelId = 1
  /\ contradictions = {}
  /\ knowledgeGaps = {}
  /\ researchQuestions = {}
  /\ detection = [p \in Pages |-> IdleDetection]
  /\ analysis = [p \in Pages |-> IdleAnalysis]
  /\ detectionRuns = 0
  /\ analysisRuns = 0
  /\ pending = NonePending
  /\ chunker = IdleChunker
  /\ generator = IdleGenerator
  /\ finder = IdleFinder
  /\ call = NoCall

\* The analysis pages are opened on an empty database, or on an ingested one.
InitAnalysis == Init \/ Ingested

\* The contradictions pages, the documents page and the settings page.
NextContradictions ==
  \/ \E p \in Pages : runContradictionDetection(p)
  \/ \E p \in Pages : DetectionClient(p)
  \/ \E p \in Pages : DetectionClaimsRead(p)
  \/ \E p \in Pages : \E kept \in SUBSET detection[p].candidates : DetectionDetected(p, kept)
  \/ \E p \in Pages : ContradictionsCleared(p)
  \/ \E p \in Pages : ContradictionsPut(p)
  \/ \E id \in DocIds : deleteDocument(id)
  \/ \E key \in BOOLEAN : handleSaveApiKey(key)

SpecContradictions == InitAnalysis /\ [][NextContradictions]_vars

\* The gaps pages, the documents page and the settings page; every gap is
\* found by the oracle, which answers every call with a list.
NextGaps ==
  \/ \E p \in Pages : runGapAnalysis(p)
  \/ \E p \in Pages : AnalysisClient(p)
  \/ \E p \in Pages : AnalysisDataRead(p)
  \/ \E p \in Pages, reply \in {r \in AnalysisReplies(MaxGaps) : ~oracleFailed(r)} :
       AnalysisGapsDetected(p, analyzeGaps(0, 0, reply))
  \/ \E p \in Pages : GapsCleared(p)
  \/ \E p \in Pages : QuestionsCleared(p)
  \/ \E p \in Pages : GapsPut(p)
  \/ \E p \in Pages, w \in 1..CONCURRENCY_LIMIT,
          reply \in {r \in AnalysisReplies(MaxQuestions) : ~oracleFailed(r)} :
       QuestionsGenerated(p, w, generateQuestions(reply))
  \/ \E p \in Pages, w \in 1..CONCURRENCY_LIMIT : QuestionsPut(p, w)
  \/ \E id \in DocIds : deleteDocument(id)
  \/ \E key \in BOOLEAN : handleSaveApiKey(key)

SpecGaps == InitAnalysis /\ [][NextGaps]_vars

\* The gaps page mounted once.
OnePage == {"tab1"}

\* One gaps page alone, with runs of several gaps: some found without the
\* oracle, some by it.
NextFailSoft ==
  \/ \E p \in OnePage : runGapAnalysis(p)
  \/ \E p \in OnePage : AnalysisClient(p)
  \/ \E p \in OnePage : AnalysisDataRead(p)
  \/ \E p \in OnePage, structuralGaps \in 0..MaxLocalGaps :
       \E densityGaps \in 0..(MaxLocalGaps - structuralGaps) :
         \E reply \in AnalysisReplies(MaxGaps) :
           AnalysisGapsDetected(p, analyzeGaps(structuralGaps, densityGaps, reply))
  \/ \E p \in OnePage : GapsCleared(p)
  \/ \E p \in OnePage : QuestionsCleared(p)
  \/ \E p \in OnePage : GapsPut(p)
  \/ \E p \in OnePage, w \in 1..CONCURRENCY_LIMIT, reply \in AnalysisReplies(MaxQuestions) :
       QuestionsGenerated(p, w, generateQuestions(reply))
  \/ \E p \in OnePage, w \in 1..CONCURRENCY_LIMIT : QuestionsPut(p, w)

SpecFailSoft == InitAnalysis /\ [][NextFailSoft]_vars

\* Ingestion and deletion on a database that already holds an ingested
\* Document.
SpecDelete == Ingested /\ [][Next]_vars

\* Replies whose claims carry one topic each.
ItemCells == [wellTyped |-> TRUE, topics |-> <<LabelCells>>]

ItemBias == [wellTyped |-> TRUE, topics |-> <<LabelBias>>]

SingleTopicReplies ==
  { [kind |-> "list", claims |-> <<ItemCells>>],
    [kind |-> "list", claims |-> <<ItemBias>>] }

\* Ingestion with an oracle whose claims carry one topic each.
NextRelationships ==
  \/ Control
  \/ \E d \in DocIds, c \in ChunkIdx, reply \in SingleTopicReplies : TaskReply(d, c, reply)
  \/ \E d \in DocIds, c \in ChunkIdx : TaskTopicRead(d, c)
  \/ \E d \in DocIds, c \in ChunkIdx : TaskTopicWrite(d, c)
  \/ \E d \in DocIds, c \in ChunkIdx : TaskClaimPut(d, c)
  \/ RelationshipUpserted

SpecRelationships == Init /\ [][NextRelationships]_vars

\* ---------------------------------------------------------------- chunkText

\* The characters of the texts: a letter, a space, a sentence end, a newline.
Chars == {"a", " ", ".", "\n"}

Texts == UNION {[1..n -> Chars] : n \in 0..MaxText}

Max(a, b) == IF a > b THEN a ELSE b

\* A slice that starts one character early.
sliceFromBefore(text, from, to) == SubSeq(text, Max(from, 1), to)

\* text.slice(from, to) for 0 <= from and to <= text.length.
slice(text, from, to) == SubSeq(text, from + 1, to)

\* The greatest member of a set of indexes, or -1: what lastIndexOf returns.
lastIndex(found) == IF found = {} THEN -1 ELSE CHOOSE i \in found : \A j \in found : j <= i

\* findBreakPoint(text, target)
findBreakPoint(text, target) ==
  IF target >= Len(text)
  THEN Len(text)
  ELSE LET searchStart  == Max(0, target - SearchWindow)
           searchRegion == slice(text, searchStart, target)
           paraIndex ==
             lastIndex({i \in 0..(Len(searchRegion) - 2) :
                          searchRegion[i + 1] = "\n" /\ searchRegion[i + 2] = "\n"})
           \* the longest match of /[\s\S]*[.!?][\s]/ ends after the last
           \* sentence end that is followed by white space
           sentenceIndex ==
             lastIndex({i \in 0..(Len(searchRegion) - 2) :
                          /\ searchRegion[i + 1] \in {".", "!", "?"}
                          /\ searchRegion[i + 2] \in Whitespace})
           spaceIndex ==
             lastIndex({i \in 0..(Len(searchRegion) - 1) : searchRegion[i + 1] = " "})
       IN  IF paraIndex # -1 THEN searchStart + paraIndex + 2
           ELSE IF sentenceIndex # -1 THEN searchStart + sentenceIndex + 2
           ELSE IF spaceIndex # -1 THEN searchStart + spaceIndex + 1
           ELSE target

\* chunkText(text, documentId, {chunkSize, chunkOverlap}) is called.
chunkTextCalled(text, chunkSize, chunkOverlap) ==
  [pc |-> "called", text |-> text, chunkSize |-> chunkSize, chunkOverlap |-> chunkOverlap,
   startOffset |-> 0, chunkIndex |-> 0, chunks |-> <<>>]

\* The lines before the loop: an empty or blank text returns no chunk.
chunkTextEntered ==
  /\ chunker.pc = "called"
  /\ chunker' = IF Len(chunker.text) = 0 \/ Len(trim(chunker.text)) = 0
                THEN [chunker EXCEPT !.pc = "returned"]
                ELSE [chunker EXCEPT !.pc = "loop"]
  /\ UNCHANGED <<analysisVars, apiKey, generator, finder, call, ingestVars, storeVars, idVars>>

\* The next chunk starts where this one ends: chunkOverlap is not used.
nextStartIgnoringOverlap(startOffset, endOffset, chunkOverlap) == endOffset

\* The step without Math.max(step, 1).
nextStartWithoutProgress(startOffset, endOffset, chunkOverlap) ==
  startOffset + (endOffset - startOffset - chunkOverlap)

\* The step to the next chunk start: startOffset + Math.max(step, 1).
nextStart(startOffset, endOffset, chunkOverlap) ==
  startOffset + Max(endOffset - startOffset - chunkOverlap, 1)

\* One turn of the while loop.
chunkTextTurn ==
  /\ chunker.pc = "loop"
  /\ LET text        == chunker.text
         startOffset == chunker.startOffset
         rawEnd      == startOffset + chunker.chunkSize
         found       == IF rawEnd >= Len(text) THEN Len(text) ELSE findBreakPoint(text, rawEnd)
         endOffset   == IF found <= startOffset
                        THEN Min(startOffset + chunker.chunkSize, Len(text))
                        ELSE found
         chunk       == [content     |-> slice(text, startOffset, endOffset),
                         startOffset |-> startOffset,
                         endOffset   |-> endOffset,
                         chunkIndex  |-> chunker.chunkIndex]
     IN  IF ~(startOffset < Len(text))
         THEN chunker' = [chunker EXCEPT !.pc = "returned"]
         ELSE IF endOffset >= Len(text)
         THEN chunker' = [chunker EXCEPT !.pc = "returned", !.chunks = Append(@, chunk)]
         ELSE chunker' = [chunker EXCEPT
                            !.chunks = Append(@, chunk),
                            !.startOffset = nextStart(startOffset, endOffset,
                                                      chunker.chunkOverlap),
                            !.chunkIndex = @ + 1]
  /\ UNCHANGED <<analysisVars, apiKey, generator, finder, call, ingestVars, storeVars, idVars>>

\* A chunkText call on any text, with a chunkSize of at least 1 and a
\* chunkOverlap of at least 0.
InitChunker ==
  /\ apiKey = FALSE
  /\ processingRef = FALSE
  /\ isProcessing = FALSE
  /\ progress = <<>>
  /\ lastIngest = "none"
  /\ files = 0
  /\ fileIdx = 0
  /\ pc = "idle"
  /\ documentId = NoDoc
  /\ content = NoDoc
  /\ thrown = ""
  /\ pairWeights = <<>>
  /\ documents = <<>>
  /\ textChunks = {}
  /\ claims = {}
  /\ topics = <<>>
  /\ topicRelationships = <<>>
  /\ runs = <<>>
  /\ tasks = <<>>
  /\ chunksCut = 0
  /\ deletions = 0
  /\ nextDocId = 0
  /\ nextTopicId = 0
  /\ nextRelId = 0
  /\ contradictions = {}
  /\ knowledgeGaps = {}
  /\ researchQuestions = {}
  /\ detection = [p \in Pages |-> IdleDetection]
  /\ analysis = [p \in Pages |-> IdleAnalysis]
  /\ detectionRuns = 0
  /\ analysisRuns = 0
  /\ pending = NonePending
  /\ generator = IdleGenerator
  /\ finder = IdleFinder
  /\ call = NoCall
  /\ \E text \in Texts, chunkSize \in 1..MaxChunkSize, chunkOverlap \in 0..MaxOverlap :
       chunker = chunkTextCalled(text, chunkSize, chunkOverlap)

NextChunker == chunkTextEntered \/ chunkTextTurn

\* The call runs on: no turn of the loop waits for anything.
SpecChunker == InitChunker /\ [][NextChunker]_vars /\ WF_vars(NextChunker)

\* ------------------------------------- generateContradictionCandidates(claims)

\* Two of the values of ClaimType.
ClaimTypes == {"finding", "methodology"}

\* The topicIds a claim of the input carries: none, one topic, two topics,
\* one topic twice.
TopicIdLists == {<<>>, <<1>>, <<2>>, <<1, 2>>, <<1, 1>>}

\* The ids of n claims in the order of the array: createId gives every claim
\* its own id, in no order.
ClaimIdOrders(n) == {ids \in [1..n -> 1..n] : \A i, j \in 1..n : ids[i] = ids[j] => i = j}

\* The arrays of n claims the function is given: what db.claims.toArray()
\* returns, every claim under its own id.
ClaimArrays(n) ==
  {[i \in 1..n |-> [id |-> ids[i], type |-> types[i], topicIds |-> topicLists[i]]] :
     ids \in ClaimIdOrders(n), types \in [1..n -> ClaimTypes],
     topicLists \in [1..n -> TopicIdLists]}

\* The key of the seen set: the smaller id, ":", the larger id.
seenKey(claimA, claimB) ==
  IF claimA.id < claimB.id THEN <<claimA.id, claimB.id>> ELSE <<claimB.id, claimA.id>>

\* Candidate generation that does not compare the types of the two claims.
candidateTurnIgnoringType(claimA, claimB, found) ==
  IF ~sharedTopic(claimA, claimB) \/ seenKey(claimA, claimB) \in found.seen
  THEN found
  ELSE [candidates |-> Append(found.candidates, <<claimA.id, claimB.id>>),
        seen |-> found.seen \union {seenKey(claimA, claimB)}]

\* One turn of the inner loop on claims[i] and claims[j]: the three continue
\* statements, then seen.add(key) and candidates.push([claimA.id, claimB.id]).
candidateTurn(claimA, claimB, found) ==
  IF claimA.type # claimB.type THEN found
  ELSE IF ~sharedTopic(claimA, claimB) THEN found
  ELSE IF seenKey(claimA, claimB) \in found.seen THEN found
  ELSE [candidates |-> Append(found.candidates, <<claimA.id, claimB.id>>),
        seen |-> found.seen \union {seenKey(claimA, claimB)}]

\* The two loops from position i, j on: j runs from i + 1 to the end of the
\* array for every i.
RECURSIVE candidateLoops(_, _, _, _)
candidateLoops(cs, i, j, found) ==
  IF i > Len(cs) THEN found.candidates
  ELSE IF j > Len(cs) THEN candidateLoops(cs, i + 1, i + 2, found)
  ELSE candidateLoops(cs, i, j + 1, candidateTurn(cs[i], cs[j], found))

\* generateContradictionCandidates(claims) on an array of typed claims.
candidatesOf(cs) == candidateLoops(cs, 1, 2, [candidates |-> <<>>, seen |-> {}])

\* The function returns its candidates.
candidatesReturned ==
  /\ generator.pc = "called"
  /\ generator' = [generator EXCEPT !.pc = "returned", !.candidates = candidatesOf(generator.claims)]
  /\ UNCHANGED <<analysisVars, apiKey, chunker, finder, call, ingestVars, storeVars, idVars>>

\* detectContradictions hands the claims it read to the function.
InitGenerator ==
  /\ apiKey = FALSE
  /\ processingRef = FALSE
  /\ isProcessing = FALSE
  /\ progress = <<>>
  /\ lastIngest = "none"
  /\ files = 0
  /\ fileIdx = 0
  /\ pc = "idle"
  /\ documentId = NoDoc
  /\ content = NoDoc
  /\ thrown = ""
  /\ pairWeights = <<>>
  /\ documents = <<>>
  /\ textChunks = {}
  /\ claims = {}
  /\ topics = <<>>
  /\ topicRelationships = <<>>
  /\ runs = <<>>
  /\ tasks = <<>>
  /\ chunksCut = 0
  /\ deletions = 0
  /\ nextDocId = 0
  /\ nextTopicId = 0
  /\ nextRelId = 0
  /\ contradictions = {}
  /\ knowledgeGaps = {}
  /\ researchQuestions = {}
  /\ detection = [p \in Pages |-> IdleDetection]
  /\ analysis = [p \in Pages |-> IdleAnalysis]
  /\ detectionRuns = 0
  /\ analysisRuns = 0
  /\ pending = NonePending
  /\ chunker = IdleChunker
  /\ finder = IdleFinder
  /\ call = NoCall
  /\ \E n \in 0..MaxClaims : \E cs \in ClaimArrays(n) :
       generator = [pc |-> "called", claims |-> cs, candidates |-> <<>>]

NextGenerator == candidatesReturned

SpecGenerator == InitGenerator /\ [][NextGenerator]_vars

\* -------------------------------------- findStructuralGaps(topics, relationships)

\* The Topic array of a call: n topics, in the order of their ids.
TopicArrays(n) == [i \in 1..n |-> [id |-> i]]

\* The TopicRelationship arrays of a call on n topics: one record for each
\* pair of a chosen set of pairs, stored from the smaller id to the larger one
\* or, every second record, the other way round; then, or not, one more
\* record: a second record for the first pair, or a record that joins a topic
\* to a topic that is not among the n.
RelationshipArrays(n) ==
  LET pairs == [k \in 1..(n * n) |-> <<((k - 1) \div n) + 1, ((k - 1) % n) + 1>>]
      on(chosen) ==
        LET joined == SelectSeq(pairs, LAMBDA pr : pr[1] < pr[2] /\ {pr[1], pr[2]} \in chosen)
        IN  [k \in DOMAIN joined |->
               IF k % 2 = 0 THEN [sourceId |-> joined[k][2], targetId |-> joined[k][1]]
                            ELSE [sourceId |-> joined[k][1], targetId |-> joined[k][2]]]
      extras(rels) ==
        {<<>>} \cup (IF rels = <<>> THEN {} ELSE {<<rels[1]>>})
               \cup {<<[sourceId |-> t, targetId |-> n + 1]>> : t \in {1} \cap (1..n)}
  IN  UNION {{on(chosen) \o extra : extra \in extras(on(chosen))} :
               chosen \in SUBSET ({{a, b} : a, b \in 1..n} \ {{a} : a \in 1..n})}

\* degreeMap.get(id): every relationship counts once for its source and once
\* for its target.
degreeOf(rels, id) ==
  Len(SelectSeq(rels, LAMBDA rel : rel.sourceId = id))
    + Len(SelectSeq(rels, LAMBDA rel : rel.targetId = id))

\* Array.prototype.sort((a, b) => a - b): the element goes behind the last
\* element that is not greater.
RECURSIVE sortAscending(_)
sortAscending(xs) ==
  IF xs = <<>> THEN <<>>
  ELSE LET rest == sortAscending(SubSeq(xs, 1, Len(xs) - 1))
           x == xs[Len(xs)]
           before == SelectSeq(rest, LAMBDA y : y <= x)
           behind == SelectSeq(rest, LAMBDA y : y > x)
       IN  before \o <<x>> \o behind

\* A median read at the front of the sorted degrees, degrees[0].
lowestDegree(ts, rels) ==
  sortAscending([i \in DOMAIN ts |-> degreeOf(rels, ts[i].id)])[1]

\* degrees[Math.floor(degrees.length / 2)]
medianDegree(ts, rels) ==
  sortAscending([i \in DOMAIN ts |-> degreeOf(rels, ts[i].id)])[(Len(ts) \div 2) + 1]

\* A filter that keeps the topics of median degree as well.
isHighDegreeOrMedian(degree, median) == degree >= median

\* The filter of highDegreeTopics.
isHighDegree(degree, median) == degree > median

\* adjacencySet.has(`${a}:${b}`)
adjacent(rels, a, b) ==
  \E k \in DOMAIN rels :
    \/ rels[k].sourceId = a /\ rels[k].targetId = b
    \/ rels[k].targetId = a /\ rels[k].sourceId = b

\* The significance of the gap between two topics of degrees da and db among
\* n topics, 0.5 + 0.5 * Math.min(1, (da + db) / (2n)), in units of 1 / (4n).
significanceOf(da, db, n) == 2 * n + (IF da + db < 2 * n THEN da + db ELSE 2 * n)

\* The two loops over highDegreeTopics from position i, j on.
RECURSIVE structuralLoops(_, _, _, _, _, _)
structuralLoops(high, rels, n, i, j, gaps) ==
  IF i > Len(high) THEN gaps
  ELSE IF j > Len(high) THEN structuralLoops(high, rels, n, i + 1, i + 2, gaps)
  ELSE structuralLoops(high, rels, n, i, j + 1,
         IF adjacent(rels, high[i].id, high[j].id) THEN gaps
         ELSE Append(gaps, [topicIds |-> <<high[i].id, high[j].id>>,
                            gapType |-> "structural",
                            significance |-> significanceOf(degreeOf(rels, high[i].id),
                                                            degreeOf(rels, high[j].id), n)]))

\* The gaps array of findStructuralGaps before line 130.
structuralGapsOf(ts, rels) ==
  IF Len(ts) < 2 THEN <<>>
  ELSE LET median == medianDegree(ts, rels)
           highDegreeTopics == SelectSeq(ts, LAMBDA t : isHighDegree(degreeOf(rels, t.id), median))
       IN  structuralLoops(highDegreeTopics, rels, Len(ts), 1, 2, <<>>)

\* gaps.sort((a, b) => b.significance - a.significance): a stable sort, the
\* most significant gap first.
RECURSIVE sortBySignificance(_)
sortBySignificance(gaps) ==
  IF gaps = <<>> THEN <<>>
  ELSE LET rest == sortBySignificance(SubSeq(gaps, 1, Len(gaps) - 1))
           g == gaps[Len(gaps)]
           before == SelectSeq(rest, LAMBDA h : h.significance >= g.significance)
           behind == SelectSeq(rest, LAMBDA h : h.significance < g.significance)
       IN  before \o <<g>> \o behind

\* .slice(0, 20)
topGaps(gaps) == SubSeq(gaps, 1, IF Len(gaps) < TopGaps THEN Len(gaps) ELSE TopGaps)

\* findStructuralGaps returns.
structuralGapsReturned ==
  /\ finder.pc = "called"
  /\ LET gaps == structuralGapsOf(finder.topics, finder.relationships)
     IN  finder' = [finder EXCEPT !.pc = "returned", !.gaps = gaps,
                                  !.returned = topGaps(sortBySignificance(gaps))]
  /\ UNCHANGED <<analysisVars, apiKey, chunker, generator, call, ingestVars, storeVars, idVars>>

\* analyzeGaps hands the topics and relationships it was given to the function.
InitFinder ==
  /\ apiKey = FALSE
  /\ processingRef = FALSE
  /\ isProcessing = FALSE
  /\ progress = <<>>
  /\ lastIngest = "none"
  /\ files = 0
  /\ fileIdx = 0
  /\ pc = "idle"
  /\ documentId = NoDoc
  /\ content = NoDoc
  /\ thrown = ""
  /\ pairWeights = <<>>
  /\ documents = <<>>
  /\ textChunks = {}
  /\ claims = {}
  /\ topics = <<>>
  /\ topicRelationships = <<>>
  /\ runs = <<>>
  /\ tasks = <<>>
  /\ chunksCut = 0
  /\ deletions = 0
  /\ nextDocId = 0
  /\ nextTopicId = 0
  /\ nextRelId = 0
  /\ contradictions = {}
  /\ knowledgeGaps = {}
  /\ researchQuestions = {}
  /\ detection = [p \in Pages |-> IdleDetection]
  /\ analysis = [p \in Pages |-> IdleAnalysis]
  /\ detectionRuns = 0
  /\ analysisRuns = 0
  /\ pending = NonePending
  /\ chunker = IdleChunker
  /\ generator = IdleGenerator
  /\ call = NoCall
  /\ \E n \in 0..MaxTopics : \E rels \in RelationshipArrays(n) :
       finder = [pc |-> "called", topics |-> TopicArrays(n), relationships |-> rels,
                 gaps |-> <<>>, returned |-> <<>>]

NextFinder == structuralGapsReturned

SpecFinder == InitFinder /\ [][NextFinder]_vars

\* ------------------------------------------------- other library functions

\* A library function is called with the given arguments while the pages and
\* the pipeline are at rest on an empty database.
InitLibrary(c) ==
  /\ apiKey = FALSE
  /\ processingRef = FALSE
  /\ isProcessing = FALSE
  /\ progress = <<>>
  /\ lastIngest = "none"
  /\ files = 0
  /\ fileIdx = 0
  /\ pc = "idle"
  /\ documentId = NoDoc
  /\ content = NoDoc
  /\ thrown = ""
  /\ pairWeights = <<>>
  /\ documents = <<>>
  /\ textChunks = {}
  /\ claims = {}
  /\ topics = <<>>
  /\ topicRelationships = <<>>
  /\ runs = <<>>
  /\ tasks = <<>>
  /\ chunksCut = 0
  /\ deletions = 0
  /\ nextDocId = 0
  /\ nextTopicId = 0
  /\ nextRelId = 0
  /\ contradictions = {}
  /\ knowledgeGaps = {}
  /\ researchQuestions = {}
  /\ detection = [p \in Pages |-> IdleDetection]
  /\ analysis = [p \in Pages |-> IdleAnalysis]
  /\ detectionRuns = 0
  /\ analysisRuns = 0
  /\ pending = NonePending
  /\ chunker = IdleChunker
  /\ generator = IdleGenerator
  /\ finder = IdleFinder
  /\ call = c

\* ------------------------------------------------ parseJsonResponse(text)

\* The characters of a response text: a backtick (written ~ here), a digit, a
\* letter, a space.
JsonChars == {"~", "1", "x", " "}

\* The response texts: up to MaxJson characters, then, or not, Padding letters.
JsonTexts ==
  {core \o pad : core \in UNION {[1..n -> JsonChars] : n \in 0..MaxJson},
                 pad \in {<<>>, [i \in 1..Padding |-> "x"]}}

\* JSON.parse(s): over these characters the JSON texts are the numbers 1, 11,
\* ... between optional white space; on any other text it throws a
\* SyntaxError, whose message is the engine's and is about s.
JSONparse(s) ==
  IF trim(s) # <<>> /\ \A i \in DOMAIN trim(s) : trim(s)[i] = "1"
  THEN [threw |-> FALSE, value |-> trim(s)]
  ELSE [threw |-> TRUE, error |-> "SyntaxError", text |-> s]

\* text.match of the code block pattern (three backticks, an optional "json",
\* white space, group 1 taken lazily, three backticks): the first fence that
\* another fence follows opens the block, the next fence closes it, and group
\* 1 is what lies between them after the leading white space.
codeBlockMatch(text) ==
  LET fenceAt(i) == i + 2 <= Len(text) /\ \A k \in i..(i + 2) : text[k] = "~"
      closes(i) == {j \in (i + 3)..Len(text) : fenceAt(j)}
      opens == {i \in DOMAIN text : fenceAt(i) /\ closes(i) # {}}
      open == CHOOSE i \in opens : \A k \in opens : i <= k
      close == CHOOSE j \in closes(open) : \A k \in closes(open) : j <= k
  IN  IF opens = {} THEN [matched |-> FALSE, group |-> <<>>]
      ELSE [matched |-> TRUE, group |-> trimStart(SubSeq(text, open + 3, close - 1))]

\* parseJsonResponse(text): the parsed value, or what it throws. slice(0, 200)
\* stops at the end of a shorter text.
parseJsonResponse(text) ==
  IF ~JSONparse(text).threw THEN JSONparse(text)
  ELSE IF codeBlockMatch(text).matched
       THEN JSONparse(trim(codeBlockMatch(text).group))
       ELSE [threw |-> TRUE, error |-> "Failed to parse JSON response: ",
             text |-> slice(text, 0, Min(Quoted, Len(text)))]

\* parseJsonResponse returns or throws.
parseJsonResponseEnded ==
  /\ call.fn = "parseJsonResponse"
  /\ call.pc = "called"
  /\ call' = [call EXCEPT !.pc = "ended", !.result = parseJsonResponse(call.text)]
  /\ UNCHANGED <<analysisVars, apiKey, chunker, generator, finder, ingestVars, storeVars, idVars>>

\* findAIGaps, generateQuestions or extractClaims hands the response text to
\* the parser.
InitParser ==
  \E text \in JsonTexts :
    InitLibrary([fn |-> "parseJsonResponse", pc |-> "called", text |-> text,
                 result |-> [threw |-> FALSE, value |-> <<>>]])

NextParser == parseJsonResponseEnded

SpecParser == InitParser /\ [][NextParser]_vars

\* ------------------------------------------ validateClaims(data), db.claims.put

\* export type ClaimType
ClaimType == {"finding", "methodology", "claim", "hypothesis", "limitation"}

\* The JSON values an item of data.claims may hold as its type: a ClaimType,
\* another string, a number (written as text), or nothing.
TypeValues ==
  {[is |-> "string", value |-> t] : t \in {"finding", "limitation", "opinion", ""}}
    \cup {[is |-> "number", value |-> "1"], [is |-> "undefined", value |-> ""]}

\* ... and as its confidence: a number, given in tenths, a string (its value
\* is not read), or nothing.
ConfidenceValues ==
  {[is |-> "number", value |-> x] : x \in {-5, 0, 5, 10, 25}}
    \cup {[is |-> "string", value |-> 0], [is |-> "undefined", value |-> 0]}

\* The items of data.claims; text is a string and topics an array.
ClaimItems == [type : TypeValues, confidence : ConfidenceValues]

\* The filter of validateClaims.
isWellTyped(c) == c.type.is = "string" /\ c.confidence.is = "number"

\* The map of validateClaims: the type as it is, the confidence cut to
\* Math.max(0, Math.min(1, confidence)), in tenths.
normalizedClaim(c) ==
  [type |-> c.type.value,
   confidence |-> Max(0, Min(10, c.confidence.value))]

\* validateClaims on a claims array, and the db.claims.put of the chunk task
\* for each claim it returns: type and confidence are stored as returned.
claimsStored ==
  /\ call.fn = "validateClaims"
  /\ call.pc = "called"
  /\ LET kept == SelectSeq(call.data, isWellTyped)
     IN  call' = [call EXCEPT !.pc = "stored",
                              !.stored = {[index |-> i] @@ normalizedClaim(kept[i]) :
                                            i \in DOMAIN kept}]
  /\ UNCHANGED <<analysisVars, apiKey, chunker, generator, finder, ingestVars, storeVars, idVars>>

\* extractClaims hands the parsed reply of the oracle to validateClaims.
InitValidator ==
  \E n \in 0..MaxItems : \E data \in [1..n -> ClaimItems] :
    InitLibrary([fn |-> "validateClaims", pc |-> "called", data |-> data, stored |-> {}])

NextValidator == claimsStored

SpecValidator == InitValidator /\ [][NextValidator]_vars

\* ------------------------------------------------- importAllData(jsonString)

\* const EXPECTED_TABLES, those the imported data varies on; the other tables
\* are absent from it.
EXPECTED_TABLES == {"documents", "claims", "knowledgeGaps"}

\* What the parsed object holds under a table name: nothing, a value that is
\* no array, an empty array, an array of rows, or an array with a row that
\* lacks the primary key of the table.
TableValues == {"absent", "notArray", "empty", "rows", "keyless"}

\* The strings given to importAllData: no JSON, JSON that is no object, or an
\* object.
ImportTexts ==
  {[parses |-> FALSE, object |-> FALSE, data |-> [t \in EXPECTED_TABLES |-> "absent"]],
   [parses |-> TRUE, object |-> FALSE, data |-> [t \in EXPECTED_TABLES |-> "absent"]]}
    \cup {[parses |-> TRUE, object |-> TRUE, data |-> d] : d \in [EXPECTED_TABLES -> TableValues]}

\* The tables of the Dexie database, appSettings as the API key it holds.
allTables ==
  <<documents, textChunks, claims, topics, topicRelationships, contradictions,
    knowledgeGaps, researchQuestions, apiKey>>

\* The lines of importAllData before await clearAllData(): JSON.parse and the
\* three validations, each of which throws.
importAllData(jsonString) ==
  /\ call = NoCall
  /\ LET presentTables == {t \in EXPECTED_TABLES : jsonString.data[t] # "absent"}
         valid == /\ jsonString.parses
                  /\ jsonString.object
                  /\ presentTables # {}
                  /\ \A t \in presentTables : jsonString.data[t] # "notArray"
     IN  call' = [fn |-> "importAllData", pc |-> IF valid THEN "clear" ELSE "thrown",
                  data |-> jsonString.data, before |-> allTables]
  /\ UNCHANGED <<analysisVars, apiKey, chunker, generator, finder, ingestVars, storeVars, idVars>>

\* The transaction of clearAllData has ended: committed, every table is empty;
\* aborted, no table has changed and importAllData throws.
clearAllDataEnded(committed) ==
  /\ call.fn = "importAllData"
  /\ call.pc = "clear"
  /\ IF committed
     THEN /\ documents' = <<>>
          /\ textChunks' = {}
          /\ claims' = {}
          /\ topics' = <<>>
          /\ topicRelationships' = <<>>
          /\ contradictions' = {}
          /\ knowledgeGaps' = {}
          /\ researchQuestions' = {}
          /\ apiKey' = FALSE
          /\ call' = [call EXCEPT !.pc = "import"]
     ELSE /\ call' = [call EXCEPT !.pc = "thrown"]
          /\ UNCHANGED <<storeVars, contradictions, knowledgeGaps, researchQuestions, apiKey>>
  /\ UNCHANGED <<detection, detectionRuns, analysis, analysisRuns, pending, chunker, generator,
                 finder, ingestVars, idVars>>

\* The transaction of importAllData has ended: committed, the rows of every
\* table of the data are stored; aborted, none is and importAllData throws.
\* A bulkPut of a row without its primary key fails, and with it the
\* transaction.
importTransactionEnded(committed) ==
  /\ call.fn = "importAllData"
  /\ call.pc = "import"
  /\ committed => \A t \in EXPECTED_TABLES : call.data[t] # "keyless"
  /\ IF committed
     THEN /\ documents' = IF call.data["documents"] = "rows"
                          THEN <<[hash |-> hashContent(1), status |-> "complete",
                                  progress |-> 100, error |-> ""]>>
                          ELSE documents
          /\ claims' = IF call.data["claims"] = "rows"
                       THEN {[id |-> <<1, 0, 1>>, documentId |-> 1, chunkIndex |-> 0,
                              topicIds |-> <<>>]}
                       ELSE claims
          /\ knowledgeGaps' = IF call.data["knowledgeGaps"] = "rows"
                              THEN GapsOf(1, 1) ELSE knowledgeGaps
          /\ call' = [call EXCEPT !.pc = "returned"]
     ELSE /\ call' = [call EXCEPT !.pc = "thrown"]
          /\ UNCHANGED <<documents, claims, knowledgeGaps>>
  /\ UNCHANGED <<textChunks, topics, topicRelationships, contradictions, researchQuestions,
                 apiKey, detection, detectionRuns, analysis, analysisRuns, pending, chunker,
                 generator, finder, ingestVars, idVars>>

\* The settings page imports a file into an empty or an ingested database.
NextImporter ==
  \/ \E jsonString \in ImportTexts : importAllData(jsonString)
  \/ \E committed \in BOOLEAN : clearAllDataEnded(committed)
  \/ \E committed \in BOOLEAN : importTransactionEnded(committed)

SpecImporter == InitAnalysis /\ [][NextImporter]_vars

\* --------------------------------------------------- normalizeLabel(label)

\* The characters of the labels: letters, one of them upper case, and a space.
LabelChars == {"a", "i", "s", "S", " "}

\* The labels of n characters.
Labels(n) == [1..n -> LabelChars]

\* normalizeLabel returns, and its result is normalized once more, as
\* upsertTopic does with a label that was stored normalized.
normalizeLabelEnded ==
  /\ call.fn = "normalizeLabel"
  /\ call.pc = "called"
  /\ call' = [call EXCEPT !.pc = "returned",
                          !.once = normalizeLabel(call.label),
                          !.twice = normalizeLabel(normalizeLabel(call.label))]
  /\ UNCHANGED <<analysisVars, apiKey, chunker, generator, finder, ingestVars, storeVars, idVars>>

InitNormalizer ==
  \E n \in 0..MaxLabel : \E label \in Labels(n) :
    InitLibrary([fn |-> "normalizeLabel", pc |-> "called", label |-> label,
                 once |-> <<>>, twice |-> <<>>])

NextNormalizer == normalizeLabelEnded

SpecNormalizer == InitNormalizer /\ [][NextNormalizer]_vars

\* ------------------------------------------------------------------ claims

\* The chunk tasks of document d that hold a slot of its semaphore: past
\* acquire and not yet through the finally block.
SlotHolders(d) ==
  {k \in TasksOf(tasks, d) : tasks[k].pc \notin {"queued", "done", "failed"}}

\* C1: while a document is being ingested, the chunk tasks of that document
\* that hold a slot are never more than 2, whatever the number of chunks and
\* whatever the order in which the oracle calls return or fail.
C1_SlotHoldersAtMostTwo ==
  \A d \in DOMAIN runs : Cardinality(SlotHolders(d)) <= 2

\* C1 at work: a document of three chunks whose third task waited in the
\* queue, was handed the slot a finishing task released, and now has its
\* oracle call out while another task holds the second slot.
C1_Witness ==
  \E d \in DOMAIN runs :
    /\ runs[d].totalChunks = 3
    /\ <<d, 2>> \in DOMAIN tasks
    /\ tasks[<<d, 2>>].pc = "call1"
    /\ Cardinality(SlotHolders(d)) = 2

\* C2: once the stored status of a Document is error or complete, no later
\* write changes the status or the progress of that Document.
C2_TerminalStatusIsFinal ==
  [][\A d \in DOMAIN documents :
       (documents[d].status \in {"error", "complete"} /\ d \in DOMAIN documents')
         => /\ documents'[d].status = documents[d].status
            /\ documents'[d].progress = documents[d].progress]_vars

\* C3: at no time do two stored Topics have the same normalizedLabel.
C3_NormalizedLabelIsUnique ==
  \A a \in DOMAIN topics, b \in DOMAIN topics :
    topics[a].normalizedLabel = topics[b].normalizedLabel => a = b

\* No ingest call is in flight and no chunk task is left running.
Quiescent == ~processingRef /\ DOMAIN tasks = {}

\* The stored Claims whose topicIds contain Topic t.
ClaimsReferencing(t) ==
  {cl \in claims : \E i \in DOMAIN cl.topicIds : cl.topicIds[i] = t}

\* C4: after any sequence of ingestions and deletions, the claimCount of every
\* Topic is the number of stored Claims whose topicIds contain it.
C4_ClaimCountIsReferencingClaims ==
  Quiescent =>
    \A t \in DOMAIN topics : topics[t].claimCount = Cardinality(ClaimsReferencing(t))

\* The documents of the batch in flight that ingest has started so far:
\* createId("doc") is called once per file, in file order.
BatchDocs == {d \in DocIds : documentId - fileIdx < d /\ d <= documentId}

\* C5: the files of a batch are processed strictly one at a time: once the
\* file in flight has made its first store write (its Document is put), no
\* chunk task of an earlier file of the batch is still running.
C5_OneDocumentAtATime ==
  (processingRef /\ pc \notin {"idle", "hash", "putDocument"})
    => \A k \in DOMAIN tasks :
         (k[1] \in BatchDocs /\ ~Settled(tasks[k])) => k[1] = documentId

C7_TransportFailureFailsDocument ==
  [][\A d \in DocIds, c \in ChunkIdx :
       TaskReply(d, c, RejectedCall)
         => /\ <<d, c>> \in DOMAIN tasks' => tasks'[<<d, c>>].pc = "failed"
            /\ (pc = "awaitAll" /\ documentId = d)
                  => (pc' = "catch" /\ thrown' = extractClaims(1, RejectedCall).error)]_vars

\* C8: whenever the first reply for a chunk is structurally invalid, be it
\* unparseable or parseable without a claims list, extractClaims makes exactly
\* one corrective retry: the second call goes out, and no third one.
C8_InvalidFirstReplyIsRetriedOnce ==
  [][\A d \in DocIds, c \in ChunkIdx, reply \in {UnparseableReply, NoListReply} :
       (TaskReply(d, c, reply) /\ tasks[<<d, c>>].pc = "call1")
         => /\ tasks'[<<d, c>>].pc = "call2"
            /\ tasks'[<<d, c>>].calls = 2]_vars

C10_DocumentCountIsReferencingDocuments ==
  (Quiescent /\ \A cl \in claims : cl.documentId \in DOMAIN documents) =>
    \A t \in DOMAIN topics :
      topics[t].documentCount =
        Cardinality({cl.documentId : cl \in ClaimsReferencing(t)})

\* C11: the topicIds of every stored Claim refer only to stored Topics,
\* whatever the interleaving of ingestion steps and document deletions. It is
\* stated for the stores in which the Document of every stored Claim is stored.
C11_ClaimTopicsExist ==
  (\A c0 \in claims : c0.documentId \in DOMAIN documents) =>
  \A cl \in claims : \A i \in DOMAIN cl.topicIds : cl.topicIds[i] \in DOMAIN topics

\* C12: every stored TopicRelationship has sourceId strictly less than
\* targetId, and both are stored Topics.
C12_RelationshipsAreCanonical ==
  \A r \in DOMAIN topicRelationships :
    /\ topicRelationships[r].sourceId < topicRelationships[r].targetId
    /\ topicRelationships[r].sourceId \in DOMAIN topics
    /\ topicRelationships[r].targetId \in DOMAIN topics

\* C13: when a contradiction detection run that got as far as the store ends,
\* the Contradiction store holds exactly the contradictions of that run.
C13_StoreHoldsTheRunsContradictions ==
  [][\A p \in Pages :
       (detection[p].pc \in {"clear", "put"} /\ detection'[p].pc = "idle")
       => contradictions' = detection[p].detected]_vars

\* C14: when a gap analysis run that got as far as the stores ends and no other
\* run is in flight, the Gap store holds exactly the gaps that run detected and
\* the Question store exactly the questions generated in that run.
C14_StoresHoldTheRunsGapsAndQuestions ==
  [][\A p \in Pages :
       (/\ analysis[p].pc \in {"clearQuestions", "workers"}
        /\ \A o \in Pages : analysis'[o].pc = "idle")
       => /\ knowledgeGaps' = GapsOf(analysis[p].run, analysis[p].detectedGaps)
          /\ researchQuestions' = analysis[p].questions]_vars

\* Records of the run in flight of page p are stored.
InsertedBy(p) ==
  /\ analysis[p].run > 0
  /\ \/ \E g \in knowledgeGaps : g[1] = analysis[p].run
     \/ \E q \in researchQuestions : q[1] = analysis[p].run

\* The run of page p ends in this step.
AnalysisEnds(p) == analysis[p].pc # "idle" /\ analysis'[p].pc = "idle"

C16_ReplaceIsAllOrNothing ==
  [][\A p \in Pages :
       (/\ GapsCleared(p)
        /\ knowledgeGaps # {}
        /\ analysis[p].detectedGaps > 0
        /\ \A o \in Pages \ {p} : analysis[o].pc = "idle")
       => GapsOf(analysis[p].run, analysis[p].detectedGaps) \subseteq knowledgeGaps']_vars

\* C17: the progress a chunk task stores for its Document is
\* 45 + round(50 * k / n) for a number k of the n chunk tasks, and no step
\* lowers the stored progress of a Document whose claim extraction has begun
\* (its stored status is analyzing).
C17_StoredProgressNeverDecreases ==
  [][/\ \A d \in DocIds, c \in ChunkIdx :
          (TaskStatusStored(d, c) /\ d \in DOMAIN documents)
          => \E k \in 1..MaxChunks :
               /\ k <= Cardinality(TasksOf(tasks, d))
               /\ documents'[d].progress =
                    45 + ((100 * k + Cardinality(TasksOf(tasks, d)))
                            \div (2 * Cardinality(TasksOf(tasks, d))))
     /\ \A d \in DOMAIN documents \cap DOMAIN documents' :
          documents[d].status = "analyzing"
          => documents'[d].progress >= documents[d].progress]_vars

\* The place of a status in the lifecycle of a Document.
StageRank(status) ==
  CASE status = "uploading"  -> 1
    [] status = "extracting" -> 2
    [] status = "chunking"   -> 3
    [] status = "analyzing"  -> 4
    [] status = "complete"   -> 5
    [] OTHER                 -> 6

\* C18: a step that changes the stored status of a Document takes it to the
\* next stage of uploading, extracting, chunking, analyzing, complete, or from
\* one of these to error.
C18_StatusOnlyMovesForward ==
  [][\A d \in DOMAIN documents \cap DOMAIN documents' :
       documents'[d].status # documents[d].status
       => /\ documents[d].status # "error"
          /\ \/ documents'[d].status = "error"
             \/ StageRank(documents'[d].status) = StageRank(documents[d].status) + 1]_vars

\* C19: every ingest call that took the processing flag eventually gives it
\* back, whenever every oracle call and every store call returns or fails.
C19_IngestEventuallyReleases == processingRef ~> ~processingRef

\* The hash lookup of step 1 finds a stored Document with the file's content.
isDuplicate(fileContent) ==
  \E d \in DOMAIN documents : documents[d].hash = hashContent(fileContent)

\* C20: ingesting a file whose content hash is that of a stored Document
\* writes nothing to the documents, chunks, claims, topics and relationships
\* stores, publishes the error "Duplicate" for that file and for no other file
\* of the batch, and the for loop of ingest goes on with the next file of the
\* batch (or ends the batch and gives the flag back after the last file).
C20_DuplicateCreatesNothing ==
  [][\A fileContent \in DocIds \cup {EarlierDoc} :
       (HashChecked(fileContent) /\ isDuplicate(fileContent))
       => /\ UNCHANGED storeVars
          /\ progress'[fileIdx].status = "error"
          /\ progress'[fileIdx].error = "Duplicate"
          /\ \A j \in (1..Len(progress)) \ {fileIdx} :
               /\ progress'[j].error = progress[j].error
               /\ (progress'[j].status = "error") <=> (progress[j].status = "error")
          /\ IF fileIdx < files
             THEN /\ processingRef'
                  /\ fileIdx' = fileIdx + 1
                  /\ pc' = "hash"
                  /\ progress'[fileIdx + 1].documentId = documentId'
                  /\ documentId' \notin DOMAIN documents
             ELSE /\ ~processingRef'
                  /\ pc' = "idle"]_vars

\* The first file of a batch of two was a duplicate, and the second file has
\* been ingested to the end.
C20_Witness ==
  /\ Len(progress) = 2
  /\ progress[1].status = "error"
  /\ progress[1].error = "Duplicate"
  /\ progress[2].status = "complete"
  /\ progress[2].documentId \in DOMAIN documents
  /\ documents[progress[2].documentId].status = "complete"
  /\ DOMAIN documents = {EarlierDoc, progress[2].documentId}
  /\ ~processingRef

\* C21: once a deleteDocument has completed, the store holds no Claim and no
\* TextChunk of a deleted Document, no Topic whose claimCount is 0 or less,
\* and no TopicRelationship with an endpoint that is not a stored Topic. Ids
\* are never used twice and claims and chunks are only written after their
\* Document was put, so a Claim or TextChunk whose Document is not stored
\* belongs to a deleted Document.
C21_DeletionLeavesNothingDangling ==
  deletions > 0 =>
    /\ \A cl \in claims : cl.documentId \in DOMAIN documents
    /\ \A ch \in textChunks : ch.documentId \in DOMAIN documents
    /\ \A t \in DOMAIN topics : topics[t].claimCount > 0
    /\ \A r \in DOMAIN topicRelationships :
         /\ topicRelationships[r].sourceId \in DOMAIN topics
         /\ topicRelationships[r].targetId \in DOMAIN topics

\* The claims of Document id, and the topics they reference.
claimsOf(id) == {cl \in claims : cl.documentId = id}

topicsOf(id) ==
  {t \in DOMAIN topics :
     \E cl \in claimsOf(id) : \E i \in 1..Len(cl.topicIds) : cl.topicIds[i] = t}

\* C22: deleteDocument(d) leaves what belongs to other Documents as it was:
\* every other Document, every TextChunk and Claim of another Document, every
\* Topic that no claim of d references, and every TopicRelationship between
\* two Topics that survive (with its weight); and it creates nothing.
C22_DeletionKeepsTheRest ==
  [][\A id \in DocIds :
       deleteDocument(id)
       => /\ DOMAIN documents' = DOMAIN documents \ {id}
          /\ \A e \in DOMAIN documents' : documents'[e] = documents[e]
          /\ textChunks' = {ch \in textChunks : ch.documentId # id}
          /\ claims' = claims \ claimsOf(id)
          /\ DOMAIN topics' \subseteq DOMAIN topics
          /\ \A t \in DOMAIN topics \ topicsOf(id) :
               t \in DOMAIN topics' /\ topics'[t] = topics[t]
          /\ DOMAIN topicRelationships' \subseteq DOMAIN topicRelationships
          /\ \A r \in DOMAIN topicRelationships :
               (/\ topicRelationships[r].sourceId \in DOMAIN topics'
                /\ topicRelationships[r].targetId \in DOMAIN topics')
               => /\ r \in DOMAIN topicRelationships'
                  /\ topicRelationships'[r] = topicRelationships[r]]_vars

\* The second Document was ingested with a claim on the two topics of the
\* first and then deleted: the first Document, its chunks and claims, the two
\* topics and their relationship (with the weight the second ingestion had
\* added) are in the store.
C22_Witness ==
  /\ deletions = 1
  /\ nextDocId = 2
  /\ DOMAIN documents = {1}
  /\ Cardinality(claims) = 2
  /\ Cardinality(textChunks) = 2
  /\ DOMAIN topics = {1, 2}
  /\ topics[1].claimCount = 2
  /\ topics[2].claimCount = 2
  /\ DOMAIN topicRelationships = {1}
  /\ topicRelationships[1].weight = 5

\* Claim cl carries topic t.
carries(cl, t) == \E i \in DOMAIN cl.topicIds : cl.topicIds[i] = t

\* The weight C23 states for the pair {tA, tB}: per Document, the claims that
\* carry both topics, and the pairs (x, y) of different claims of the Document
\* with tA in x and tB in y.
statedWeight(tA, tB) ==
  Cardinality({cl \in claims : carries(cl, tA) /\ carries(cl, tB)})
  + Cardinality({<<x, y>> \in claims \X claims :
                   /\ x.documentId = y.documentId
                   /\ x # y
                   /\ carries(x, tA)
                   /\ carries(y, tB)})

relatedOf(tA, tB) ==
  {r \in DOMAIN topicRelationships :
     /\ topicRelationships[r].type = "related"
     /\ {topicRelationships[r].sourceId, topicRelationships[r].targetId} = {tA, tB}}

\* C23: when nothing was deleted, no ingestion is running and every stored
\* Document is complete, each pair of different topics that co-occur in a
\* Document has exactly one "related" relationship, whose weight is the sum
\* over the Documents of the number of claims carrying both topics plus the
\* number of pairs of different claims with one topic in each; a pair that
\* co-occurs nowhere has none.
C23_WeightIsTheCoOccurrenceCount ==
  (/\ Quiescent
   /\ deletions = 0
   /\ \A d \in DOMAIN documents : documents[d].status = "complete")
  => \A tA \in DOMAIN topics, tB \in DOMAIN topics :
       tA < tB =>
         IF statedWeight(tA, tB) = 0
         THEN relatedOf(tA, tB) = {}
         ELSE /\ Cardinality(relatedOf(tA, tB)) = 1
              /\ \A r \in relatedOf(tA, tB) :
                   topicRelationships[r].weight = statedWeight(tA, tB)

\* The topic ids the claims of Document d carry.
topicIdsOf(d) ==
  UNION {{cl.topicIds[i] : i \in DOMAIN cl.topicIds} : cl \in claimsOf(d)}

\* createTopicRelationships has read the claims of the Document in flight.
relationshipsRead == pc = "relRead" /\ pc' # "relRead"

\* The Document in flight goes on to step 7 having written no relationship.
noRelationshipOfDocument ==
  /\ pc' = "setComplete"
  /\ topicRelationships' = topicRelationships

\* Relationships are written by the upsert loop of createTopicRelationships
\* only.
upsertsOnly ==
  (topicRelationships' # topicRelationships /\ deletions' = deletions)
  => pc = "relUpsert"

C25_ChunksLeaveNoGap ==
  /\ \A i \in 1..Len(chunker.chunks) : chunker.chunks[i].endOffset <= Len(chunker.text)
  /\ \A i \in 1..(Len(chunker.chunks) - 1) :
       /\ chunker.chunks[i + 1].startOffset <= chunker.chunks[i].endOffset
       /\ (/\ chunker.chunkOverlap >= 1
           /\ chunker.chunks[i].endOffset - chunker.chunks[i].startOffset > 1)
          => chunker.chunks[i + 1].startOffset < chunker.chunks[i].endOffset

\* A call with chunkOverlap 1 has returned two chunks that share a character.
C25_Witness ==
  /\ chunker.pc = "returned"
  /\ chunker.chunkOverlap = 1
  /\ Len(chunker.chunks) = 2
  /\ chunker.chunks[2].startOffset < chunker.chunks[1].endOffset
  /\ chunker.chunks[2].endOffset = Len(chunker.text)

\* C25 as stated: consecutive chunks overlap for every text and every setting.
C25_ChunksOverlap ==
  \A i \in 1..(Len(chunker.chunks) - 1) :
    /\ chunker.chunks[i + 1].startOffset < chunker.chunks[i].endOffset
    /\ chunker.chunks[i].endOffset <= Len(chunker.text)

\* C26: chunkText of a text that is not blank returns at least one chunk;
\* every chunk's content is text[startOffset:endOffset] and its chunkIndex is
\* its position in the list, from 0; the first chunk starts at 0 and the last
\* ends at the text length.
C26_ChunksAreSlicesOfTheText ==
  /\ \A i \in 1..Len(chunker.chunks) :
       /\ chunker.chunks[i].content =
            SubSeq(chunker.text, chunker.chunks[i].startOffset + 1, chunker.chunks[i].endOffset)
       /\ chunker.chunks[i].chunkIndex = i - 1
  /\ (chunker.pc = "returned" /\ Len(trim(chunker.text)) > 0)
     => /\ Len(chunker.chunks) >= 1
        /\ chunker.chunks[1].startOffset = 0
        /\ chunker.chunks[Len(chunker.chunks)].endOffset = Len(chunker.text)

\* A call has returned three chunks, the second of which was cut at a break
\* point.
C26_Witness ==
  /\ chunker.pc = "returned"
  /\ Len(chunker.chunks) = 3
  /\ chunker.chunks[2].endOffset < chunker.chunks[2].startOffset + chunker.chunkSize
  /\ chunker.chunks[3].endOffset = Len(chunker.text)

\* C27: chunkText returns on every input, and every turn of its loop that
\* does not return moves startOffset forward, whatever chunkSize and
\* chunkOverlap are.
C27_ChunkTextTerminates ==
  /\ [][chunker.pc = "loop"
        => \/ chunker'.pc = "returned"
           \/ chunker'.startOffset > chunker.startOffset]_vars
  /\ <>(chunker.pc = "returned")

\* A call with chunkOverlap >= chunkSize has returned more than one chunk.
C27_Witness ==
  /\ chunker.pc = "returned"
  /\ chunker.chunkOverlap >= chunker.chunkSize
  /\ Len(chunker.chunks) > 1
  /\ \A i \in 1..(Len(chunker.chunks) - 1) :
       chunker.chunks[i + 1].startOffset = chunker.chunks[i].startOffset + 1

\* Two claims of the input are a contradiction candidate by the statement:
\* they have the same type and some topic id is carried by both.
candidatePair(claimA, claimB) ==
  /\ claimA.type = claimB.type
  /\ \E t \in 1..2 : carries(claimA, t) /\ carries(claimB, t)

\* The pairs of the result that name the two claims, in either order.
emitted(claimA, claimB) ==
  {k \in DOMAIN generator.candidates :
     generator.candidates[k] \in {<<claimA.id, claimB.id>>, <<claimB.id, claimA.id>>}}

\* C28: generateContradictionCandidates emits a pair of claims if and only if
\* the two claims are distinct, have the same type and share at least one
\* topic id; it emits each such unordered pair exactly once, so N claims of
\* one type that share one topic give N(N-1)/2 pairs.
C28_CandidatesAreTheSameTypeSharedTopicPairs ==
  generator.pc = "returned" =>
    LET cs == generator.claims
    IN /\ \A i, j \in DOMAIN cs :
            i # j => Cardinality(emitted(cs[i], cs[j])) =
                       (IF candidatePair(cs[i], cs[j]) THEN 1 ELSE 0)
       /\ \A k \in DOMAIN generator.candidates :
            \E i, j \in DOMAIN cs :
              i # j /\ generator.candidates[k] = <<cs[i].id, cs[j].id>>
       /\ (\A i, j \in DOMAIN cs : candidatePair(cs[i], cs[j]))
            => 2 * Len(generator.candidates) = Len(cs) * (Len(cs) - 1)

\* Three claims of one type that share a topic have given three pairs.
C28_Witness ==
  /\ generator.pc = "returned"
  /\ Len(generator.claims) = 3
  /\ \A i, j \in 1..3 : candidatePair(generator.claims[i], generator.claims[j])
  /\ Len(generator.candidates) = 3

\* The replies that make the try block of findAIGaps or generateQuestions throw.
FailedReplies == {reply \in AnalysisReplies(0) : oracleFailed(reply)}

\* The oracle fails in the AI pass of the run of page p, analyzeGaps having
\* found local gaps without the oracle.
AIPassFails(p, local) ==
  \E structuralGaps \in 0..local, reply \in FailedReplies :
    AnalysisGapsDetected(p, analyzeGaps(structuralGaps, local - structuralGaps, reply))

\* The oracle fails in generateQuestions for the gap worker w of page p has
\* taken.
QuestionPassFails(p, w) ==
  \E reply \in FailedReplies : QuestionsGenerated(p, w, generateQuestions(reply))

\* C29: an oracle failure in the AI gap pass, or in question generation for
\* one gap, does not abort the gap analysis run. After a failed AI pass the
\* run goes on with the structural and density gaps as its detected gaps, and
\* stores them; after a failed question generation the run goes on without an
\* error, the other workers and the stored questions untouched; and a run that
\* got past analyzeGaps ends without an error, having taken every gap, with
\* its structural and density gaps and every question it generated stored.
C29_OracleFailureDoesNotAbortTheRun ==
  [][\A p \in OnePage :
       /\ \A local \in 0..MaxLocalGaps :
            AIPassFails(p, local)
              => /\ analysis'[p].pc = "clearGaps"
                 /\ analysis'[p].isAnalyzing
                 /\ analysis'[p].error = ""
                 /\ analysis'[p].detectedGaps = local
       /\ analysis[p].pc = "putGaps" /\ analysis'[p].pc # "putGaps"
            => /\ analysis'[p].pc = "workers"
               /\ GapsOf(analysis[p].run, analysis[p].localGaps) \subseteq knowledgeGaps'
       /\ \A w \in 1..CONCURRENCY_LIMIT :
            QuestionPassFails(p, w)
              => /\ analysis'[p].error = ""
                 /\ researchQuestions' = researchQuestions
                 /\ analysis'[p].pc = "workers"
                      => \A v \in DOMAIN analysis[p].workers \ {w} :
                           analysis'[p].workers[v] = analysis[p].workers[v]
       /\ AnalysisEnds(p) /\ analysis[p].pc \in {"clearQuestions", "workers"}
            => /\ analysis'[p].error = ""
               /\ analysis[p].gapIndex = Min(analysis[p].detectedGaps,
                                             IF analysis[p].pc = "workers"
                                             THEN analysis[p].detectedGaps ELSE 0)
               /\ GapsOf(analysis[p].run, analysis[p].localGaps) \subseteq knowledgeGaps'
               /\ analysis[p].questions \subseteq researchQuestions']_vars

\* The AI pass of a run has failed, its structural and density gaps are
\* stored, question generation has failed for one of them and the question of
\* another one is stored.
C29_Witness ==
  \E p \in OnePage :
    /\ analysis[p].pc = "workers"
    /\ analysis[p].aiFailed
    /\ analysis[p].localGaps > 1
    /\ GapsOf(analysis[p].run, analysis[p].localGaps) \subseteq knowledgeGaps
    /\ \E g \in analysis[p].failedGaps :
         \E h \in 1..analysis[p].localGaps :
           h # g /\ QuestionsOf(analysis[p].run, h, 1) \subseteq researchQuestions

\* The number of relationship records of the call that name topic t as their
\* source, plus those that name it as their target.
degree(t) ==
  Cardinality({k \in DOMAIN finder.relationships : finder.relationships[k].sourceId = t})
    + Cardinality({k \in DOMAIN finder.relationships : finder.relationships[k].targetId = t})

\* sortedDegrees[floor(n/2)]: the degree m such that at most floor(n/2) topics
\* have a smaller degree and more than floor(n/2) have a degree of m or less.
thresholdDegree ==
  LET ids == {finder.topics[i].id : i \in DOMAIN finder.topics}
      half == Len(finder.topics) \div 2
  IN  CHOOSE m \in {degree(t) : t \in ids} :
        /\ Cardinality({t \in ids : degree(t) < m}) <= half
        /\ Cardinality({t \in ids : degree(t) <= m}) > half

\* Some relationship of the call joins a and b, in either direction.
joined(a, b) ==
  \E k \in DOMAIN finder.relationships :
    {finder.relationships[k].sourceId, finder.relationships[k].targetId} = {a, b}

\* The unordered pairs of topics the statement names.
structuralPairs ==
  IF finder.topics = <<>> THEN {}
  ELSE LET ids == {finder.topics[i].id : i \in DOMAIN finder.topics}
           threshold == thresholdDegree
           above == {t \in ids : degree(t) > threshold}
       IN  {pair \in SUBSET above :
              /\ Cardinality(pair) = 2
              /\ \E a \in pair, b \in pair : a # b /\ ~joined(a, b)}

\* C30: before the top-20 cut, findStructuralGaps holds one gap for each
\* unordered pair of topics that both have a degree strictly greater than
\* sortedDegrees[floor(n/2)] and that no relationship joins in either
\* direction, and no other gap; with fewer gaps than the cut, it returns them
\* all.
C30_StructuralGapsAreTheUnjoinedHighDegreePairs ==
  finder.pc = "returned" =>
    /\ LET named == structuralPairs
       IN  /\ {{finder.gaps[k].topicIds[1], finder.gaps[k].topicIds[2]} :
                 k \in DOMAIN finder.gaps} = named
           /\ Len(finder.gaps) = Cardinality(named)
    /\ Len(finder.gaps) <= TopGaps
         => {finder.returned[k] : k \in DOMAIN finder.returned}
              = {finder.gaps[k] : k \in DOMAIN finder.gaps}

\* Of five topics, two are joined to each of the other three and not to each
\* other: the call has returned the gap between the two.
C30_Witness ==
  /\ finder.pc = "returned"
  /\ Len(finder.topics) = 5
  /\ Len(finder.relationships) = 6
  /\ thresholdDegree = 2
  /\ Len(finder.gaps) = 1
  /\ degree(finder.gaps[1].topicIds[1]) = 3
  /\ degree(finder.gaps[1].topicIds[2]) = 3

\* C31: every failure of the shared JSON parser is reported as a parse error
\* ("Failed to parse JSON response: ...") whose message carries the first 200
\* characters of the input text.
C31_FailureQuotesTheText ==
  call.fn = "parseJsonResponse" /\ call.pc = "ended" /\ call.result.threw
    => /\ call.result.error = "Failed to parse JSON response: "
       /\ call.result.text = SubSeq(call.text, 1, IF Len(call.text) < Quoted
                                                  THEN Len(call.text) ELSE Quoted)

\* C32: every Claim stored by ingestion has a type from the closed set
\* {finding, methodology, claim, hypothesis, limitation} and a confidence in
\* [0, 1] (0 to 10 tenths), whatever the oracle returns.
C32_StoredClaimsAreWellFormed ==
  call.fn = "validateClaims" =>
    \A cl \in call.stored : cl.type \in ClaimType /\ cl.confidence \in 0..10

\* The workers of a run that have a gap in hand.
busyWorkers(a) == {w \in DOMAIN a.workers : a.workers[w].pc # "done"}

\* C33: during question generation every detected gap is taken by exactly one
\* of the at most 3 workers, for any order in which the oracle calls return.
\* The workers start with the gaps 1 .. min(3, detected); later a gap is taken
\* one at a time, always the one after the gap taken last, by one worker that
\* has finished its own gap, the other workers keeping theirs; no two workers
\* hold the same gap; and the run ends only when every gap has been taken.
C33_EveryGapIsTakenByOneWorker ==
  [][\A p \in OnePage :
       LET a == analysis[p]
           b == analysis'[p]
       IN  /\ b.pc = "workers"
                => /\ Len(b.workers) <= 3
                   /\ b.gapIndex <= b.detectedGaps
                   /\ \A v, w \in busyWorkers(b) :
                        v # w => b.workers[v].gap # b.workers[w].gap
                   /\ \A w \in busyWorkers(b) : b.workers[w].gap \in 1..b.gapIndex
           /\ a.pc = "putGaps" /\ b.pc = "workers"
                => /\ {b.workers[w].gap : w \in busyWorkers(b)} = 1..b.gapIndex
                   /\ b.gapIndex = Min(3, b.detectedGaps)
           /\ a.pc = "workers" /\ b.pc = "workers"
                => \/ /\ b.gapIndex = a.gapIndex
                      /\ \A w \in DOMAIN a.workers :
                           b.workers[w].gap \in {a.workers[w].gap, 0}
                   \/ /\ b.gapIndex = a.gapIndex + 1
                      /\ \E w \in busyWorkers(a) :
                           /\ b.workers[w].gap = a.gapIndex + 1
                           /\ b.workers[w].pc = "generate"
                           /\ \A v \in DOMAIN a.workers \ {w} : b.workers[v] = a.workers[v]
           /\ a.pc = "workers" /\ b.pc # "workers"
                => /\ a.gapIndex = a.detectedGaps
                   /\ Cardinality(busyWorkers(a)) = 1]_vars

\* A run of four gaps: the third worker has taken the fourth gap while the
\* first worker still waits for the oracle's answer on the first gap.
C33_Witness ==
  \E p \in OnePage :
    /\ analysis[p].pc = "workers"
    /\ analysis[p].detectedGaps = 4
    /\ analysis[p].workers[3].gap = 4
    /\ analysis[p].workers[1].gap = 1
    /\ analysis[p].workers[1].pc = "generate"

\* The chunk task has left the semaphore queue, and holds a slot or is settled.
started(t) == t.pc # "queued"

\* The chunk task holds a slot.
running(t) == started(t) /\ ~Settled(t)

C35_QuestionsReferToStoredGaps ==
  \A q \in researchQuestions : <<q[1], q[2]>> \in knowledgeGaps

\* C36: at most one gap analysis run is in progress at any time: a
\* runGapAnalysis call goes past its first line, and so to the store and the
\* oracle, only when no run is in flight on any page.
C36_OneAnalysisRunAtATime ==
  [][analysisRuns' # analysisRuns => \A p \in Pages : ~analysis[p].isAnalyzing]_vars

\* C37: every stored Contradiction refers to two Claims that exist in the
\* store.
C37_ContradictionsReferToStoredClaims ==
  \A con \in contradictions : con[2] \subseteq {cl.id : cl \in claims}

\* C38: importAllData is all-or-nothing: when the call has failed, every
\* table holds exactly the data it held before the call.
C38_FailedImportLeavesTheData ==
  call.fn = "importAllData" /\ call.pc = "thrown" => allTables = call.before

\* C39: findStructuralGaps returns no gap whenever it is given fewer than 5
\* topics, whatever the relationships are.
C39_FewerThanFiveTopicsNoGap ==
  finder.pc = "returned" /\ Len(finder.topics) < 5
    => finder.gaps = <<>> /\ finder.returned = <<>>

\* A call on four topics has returned no gap: one topic is of high degree,
\* and two topics that no relationship joins are not.
C39_Witness ==
  /\ finder.pc = "returned"
  /\ Len(finder.topics) = 4
  /\ finder.returned = <<>>
  /\ \E t \in 1..4 : degree(t) > thresholdDegree
  /\ \E a, b \in 1..4 : a # b /\ ~joined(a, b) /\ degree(a) > 0 /\ degree(b) > 0

\* C40: label normalization is idempotent: normalizing a normalized label
\* gives the same label, for every label.
C40_NormalizeLabelIsIdempotent ==
  call.fn = "normalizeLabel" /\ call.pc = "returned" => call.twice = call.once

====
